---- MODULE Spec2Model ----
(***************************************************************************)
(* Expense lifecycle and advance-balance engine of production-expense.     *)
(*                                                                         *)
(* The persisted collections (User.advanceBalance, Advance, Expense,       *)
(* Journey, MonthLock) are the state; every controller is one action.      *)
(* Money is counted in the smallest currency unit and distances in         *)
(* 1/DistScale km, so that distance * rate needs the rounding that         *)
(* parseFloat(x.toFixed(2)) performs in the source.                        *)
(***************************************************************************)
EXTENDS Integers, Sequences, FiniteSets, TLC

\* ------------------------------------------------------------------ bounds
MaxExpenses == 2
MaxJourneys == 1
MaxAdvances == 1
MaxMonth    == 2
MaxBulk     == 2
MaxAmount   == 7
MaxProcs    == 2
MaxTrips    == 2
MaxCalls    == 2
MaxRetries  == 2

\* ------------------------------------------------------- program constants
DefaultRate == 8
RateMax     == 100
DistScale   == 2
PctScale    == 100

\* ------------------------------------------------ values requests carry
ConfiguredRate == 3
Haversine      == 2
RoadDistance   == 3
AdminDistance  == 1
VarianceThreshold == 20

\* --------------------------------------------------------------- universes
Nil       == -1
NoId      == 0
Employees == {"u1", "u2"}
Admins    == {"admin1"}
Supers    == {"super1"}
Months    == 1..MaxMonth
Amounts   == {2}
Percents  == {-1, 0, 10 * PctScale, 10 * PctScale + 1, 15 * PctScale,
              20 * PctScale, 20 * PctScale + 1, 25 * PctScale}
SettingValues == {0, ConfiguredRate + 1, RateMax + 1}
AdvanceAmounts == {5}
Options   == {1, 2, 3}
Reasons   == {"no receipt"}
NoReason  == ""

RoleOf(a) ==
  IF a \in Supers THEN "superadmin" ELSE IF a \in Admins THEN "admin" ELSE "user"

\* User.assignedTo: u1 reports to admin1, u2 to nobody
AssignedTo(u) == IF u = "u1" THEN "admin1" ELSE "none"

VARIABLES
  advanceBalance,   \* User.advanceBalance per employee
  advances,         \* Advance collection, in insertion order
  expenses,         \* Expense collection; the index is the _id
  journeys,         \* Journey collection; the index is the _id
  monthLocks,       \* MonthLock collection keyed by (userId, month)
  ratePerKm,        \* Settings RATE_PER_KM (Nil when unset)
  now,              \* the month new Date() falls in
  req,              \* the last request
  res,              \* the response to it
  procs,            \* requests in flight (interleaved specification only)
  lookups           \* the calculateDistance calls made, settled or not

vars == <<advanceBalance, advances, expenses, journeys, monthLocks, ratePerKm,
          now, req, res, procs, lookups>>

db == <<advanceBalance, advances, expenses, journeys, monthLocks, ratePerKm,
        now, lookups>>

\* ----------------------------------------------------------------- helpers
NumOr0(x) == IF x = Nil THEN 0 ELSE x

Range(s) == {s[i] : i \in 1..Len(s)}

RECURSIVE SelectIdx(_, _, _)
\* the ascending list of the indices i in 1..n with P[i]
SelectIdx(n, P, i) ==
  IF i > n THEN <<>>
  ELSE IF P[i] THEN <<i>> \o SelectIdx(n, P, i + 1) ELSE SelectIdx(n, P, i + 1)

\* parseFloat((n / DistScale).toFixed(2)): n is in 1/DistScale currency units
ToFixed2(n) == (2 * n + DistScale) \div (2 * DistScale)

ExpenseIds == 1..Len(expenses)
JourneyIds == 1..Len(journeys)
Stored(id) == id \in ExpenseIds /\ expenses[id].exists


\* ---------------------------------------------------------------- MonthLock
LockStates == {"none", "locked", "unlocked"}

\* MonthLock.findOne({ year, month }): the query names no userId, so any
\* employee's record for that month may be the one returned
FoundLocks(m) ==
  IF \A u \in Employees : monthLocks[u][m] = "none" THEN {"none"}
  ELSE {monthLocks[u][m] : u \in {v \in Employees : monthLocks[v][m] # "none"}}

\* what the findOne calls of one request return, per month
LockViews == {v \in [Months -> LockStates] : \A m \in Months : v[m] \in FoundLocks(m)}

\* monthLock && monthLock.isLocked
IsLockedView(view, m) == view[m] = "locked"

\* ------------------------------------------------------- varianceCalculator
\* Percentages are counted in 1/PctScale percent.
\* bands that leave their upper limits out
getVarianceCategoryExclusive(variancePercentage) ==
  IF variancePercentage < 0 THEN "thrown"
  ELSE IF variancePercentage < 10 * PctScale THEN "low"
  ELSE IF variancePercentage < 20 * PctScale THEN "medium"
  ELSE "high"

\* getVarianceCategory(variancePercentage); a negative percentage throws
getVarianceCategory(variancePercentage) ==
  IF variancePercentage < 0 THEN "thrown"
  ELSE IF variancePercentage <= 10 * PctScale THEN "low"
  ELSE IF variancePercentage <= 20 * PctScale THEN "medium"
  ELSE "high"

\* the virtual variancePercentage of the Expense model, which is not rounded:
\* the fraction num / den percent
variancePercentage(e) ==
  IF e.type # "journey" \/ e.systemDistance = Nil \/ e.systemDistance = 0
  THEN [num |-> 0, den |-> 1]
  ELSE [num |-> 100 * (IF e.manualDistance >= e.systemDistance
                       THEN e.manualDistance - e.systemDistance
                       ELSE e.systemDistance - e.manualDistance),
        den |-> e.systemDistance]

\* the virtual varianceCategory of the Expense model
varianceCategory(e) ==
  LET variance == variancePercentage(e)
  IN IF variance.num <= 10 * variance.den THEN "low"
     ELSE IF variance.num <= 20 * variance.den THEN "medium"
     ELSE "high"

\* a calculation that returns the distance cost alone
distanceCostOnly(e, option, adminDistance) ==
  LET rate == IF e.distanceRate = Nil \/ e.distanceRate = 0
              THEN DefaultRate ELSE e.distanceRate
      dist == IF option = 1 THEN NumOr0(e.systemDistance)
              ELSE IF option = 2 THEN NumOr0(e.manualDistance)
              ELSE adminDistance
  IN IF option = 3 /\ adminDistance = Nil
       THEN [ok |-> FALSE, value |-> Nil, error |-> "adminDistanceRequired"]
     ELSE [ok |-> TRUE, value |-> ToFixed2(dist * rate), error |-> "none"]

\* calculateApprovedAmount(expense, approvedOption, adminDistance)
calculateApprovedAmount(e, option, adminDistance) ==
  LET rate == IF e.distanceRate = Nil \/ e.distanceRate = 0
              THEN DefaultRate ELSE e.distanceRate
      dist == IF option = 1 THEN NumOr0(e.systemDistance)
              ELSE IF option = 2 THEN NumOr0(e.manualDistance)
              ELSE adminDistance
  IN IF option \notin Options
       THEN [ok |-> FALSE, value |-> Nil, error |-> "badOption"]
     ELSE IF option = 3 /\ adminDistance = Nil
       THEN [ok |-> FALSE, value |-> Nil, error |-> "adminDistanceRequired"]
     ELSE [ok |-> TRUE,
           value |-> ToFixed2(NumOr0(e.amount) * DistScale + dist * rate),
           error |-> "none"]

\* ------------------------------------------------------------------ records
NewExpense(userId, type, category, journeyId, date, amount, sd, md, rate) ==
  [exists |-> TRUE, userId |-> userId, type |-> type,
   expenseCategory |-> category, journeyId |-> journeyId, date |-> date,
   amount |-> amount,
   systemDistance |-> IF sd = Nil THEN 0 ELSE sd,
   manualDistance |-> md, adminDistance |-> Nil, distanceRate |-> rate,
   status |-> "pending", approvedOption |-> 0, approvedAmount |-> Nil,
   approvedBy |-> "none", rejectionReason |-> NoReason, bulkApproved |-> FALSE]

NoReq == [op |-> "none"]
NoRes == [kind |-> "none"]
NoFault == [pt |-> "none", at |-> NoId]
FaultAt(flt, pt, id) == flt.pt = pt /\ flt.at = id

Fail(kind) == [kind |-> kind]

\* the part of the store a controller writes, threaded through its steps
Store == [expenses |-> expenses, journeys |-> journeys,
          advanceBalance |-> advanceBalance]

\* ------------------------------------------------------- approvalController
\* a debit that is skipped when the balance does not cover it
newBalanceUnlessOverdrawn(previousBalance, approvedAmount) ==
  IF approvedAmount > previousBalance THEN previousBalance
  ELSE previousBalance - approvedAmount

\* a debit that stops at zero instead of going negative
newBalanceFloored(previousBalance, approvedAmount) ==
  IF previousBalance - approvedAmount < 0 THEN 0
  ELSE previousBalance - approvedAmount

\* const newBalance = previousBalance - approvedAmount
newBalance(previousBalance, approvedAmount) == previousBalance - approvedAmount

\* a total that holds the last approved amount only
journeyTotalOverwritten(previousJourneyTotal, approvedAmount) == approvedAmount

\* journey.additionalExpensesTotal = previousJourneyTotal + approvedAmount
journeyTotal(previousJourneyTotal, approvedAmount) ==
  previousJourneyTotal + approvedAmount

\* a guard that refuses approved expenses only
onlyApprovedIsProcessed(e) == e.status = "approved"

\* a guard that refuses rejected expenses only
onlyRejectedIsProcessed(e) == e.status = "rejected"

\* if (expense.status !== 'pending')
alreadyProcessed(e) == e.status # "pending"

\* approveExpense: the store after the request and the response
approveExpenseOut(actor, id, option, adminDistance, view, flt) ==
  LET e == expenses[id]
      amt == IF e.type = "journey"
             THEN calculateApprovedAmount(e, option, adminDistance)
             ELSE [ok |-> TRUE, value |-> e.amount, error |-> "none"]
      e2 == [e EXCEPT !.status = "approved",
                      !.approvedAmount = amt.value,
                      !.approvedBy = actor,
                      !.approvedOption = IF e.type = "journey" THEN option ELSE @,
                      !.adminDistance = IF e.type = "journey" /\ option = 3
                                           /\ adminDistance # Nil
                                        THEN adminDistance ELSE @]
      st1 == [Store EXCEPT !.expenses[id] = e2]
      j == e.journeyId
      st2 == IF j # NoId
             THEN [st1 EXCEPT !.journeys[j].additionalExpensesTotal =
                                  journeyTotal(@, amt.value)]
             ELSE st1
      prev == advanceBalance[e.userId]
      st3 == [st2 EXCEPT !.advanceBalance[e.userId] = newBalance(prev, amt.value)]
  IN IF RoleOf(actor) \notin {"admin", "superadmin"}
       THEN [st |-> Store, res |-> Fail("forbidden")]
     ELSE IF ~Stored(id)
       THEN [st |-> Store, res |-> Fail("notFound")]
     ELSE IF RoleOf(actor) = "admin" /\ AssignedTo(e.userId) # actor
       THEN [st |-> Store, res |-> Fail("forbidden")]
     ELSE IF alreadyProcessed(e)
       THEN [st |-> Store, res |-> Fail("alreadyProcessed")]
     ELSE IF IsLockedView(view, e.date)
       THEN [st |-> Store, res |-> Fail("periodLocked")]
     ELSE IF ~amt.ok
       THEN [st |-> Store, res |-> Fail("badRequest")]
     ELSE IF FaultAt(flt, "expenseSave", id)
       THEN [st |-> Store, res |-> Fail("error")]
     ELSE IF j # NoId /\ FaultAt(flt, "journeySave", id)
       THEN [st |-> st1, res |-> Fail("error")]
     ELSE IF FaultAt(flt, "userSave", id)
       THEN [st |-> st2, res |-> Fail("error")]
     ELSE [st |-> st3,
           res |-> [kind |-> "ok", expenseId |-> id, approvedAmount |-> amt.value,
                    previous |-> prev, current |-> newBalance(prev, amt.value)]]

\* a rejection that keeps no reason
rejectedWithoutReason(e, actor, rejectionReason) ==
  [e EXCEPT !.status = "rejected", !.approvedBy = actor]

\* expense.status = 'rejected'; expense.rejectionReason = rejectionReason;
\* expense.approvedBy = adminId
rejected(e, actor, rejectionReason) ==
  [e EXCEPT !.status = "rejected", !.rejectionReason = rejectionReason,
            !.approvedBy = actor]

\* rejectExpense
rejectExpenseOut(actor, id, rejectionReason, view, flt) ==
  LET e == expenses[id]
      e2 == rejected(e, actor, rejectionReason)
  IN IF RoleOf(actor) \notin {"admin", "superadmin"}
       THEN [st |-> Store, res |-> Fail("forbidden")]
     ELSE IF ~Stored(id)
       THEN [st |-> Store, res |-> Fail("notFound")]
     ELSE IF RoleOf(actor) = "admin" /\ AssignedTo(e.userId) # actor
       THEN [st |-> Store, res |-> Fail("forbidden")]
     ELSE IF e.status # "pending"
       THEN [st |-> Store, res |-> Fail("alreadyProcessed")]
     ELSE IF IsLockedView(view, e.date)
       THEN [st |-> Store, res |-> Fail("periodLocked")]
     ELSE IF FaultAt(flt, "expenseSave", id)
       THEN [st |-> Store, res |-> Fail("error")]
     ELSE [st |-> [Store EXCEPT !.expenses[id] = e2],
           res |-> [kind |-> "ok", expenseId |-> id]]


\* the variance test of the bulk filter: variance <= varianceThreshold, with
\* variance = |manual - system| / system * 100 (a null manual distance is 0)
WithinVariance(e, threshold) ==
  LET sd == e.systemDistance
      md == NumOr0(e.manualDistance)
      diff == IF md >= sd THEN md - sd ELSE sd - md
  IN diff * 100 <= threshold * sd

\* the filter callback of bulkApproveExpenses
PassesVarianceFilter(e, maxVariance) ==
  IF e.type # "journey" THEN TRUE
  ELSE IF NumOr0(e.systemDistance) # 0 THEN WithinVariance(e, maxVariance)
  ELSE TRUE

NoResults == [approved |-> <<>>, failed |-> <<>>, writes |-> <<>>]

\* an amount that leaves the distance cost out
bulkAmountIgnoringDistance(e, option) ==
  [ok |-> TRUE, value |-> NumOr0(e.amount), error |-> "none"]

\* the approvedAmount of a bulk item: calculateApprovedAmount(expense,
\* approvedOption) for journey-type expenses, parseFloat(expense.amount) || 0
\* for the others
bulkApprovedAmount(e, option) ==
  IF e.type = "journey"
  THEN calculateApprovedAmount(e, option, Nil)
  ELSE [ok |-> TRUE, value |-> NumOr0(e.amount), error |-> "none"]

\* one iteration of the for loop of bulkApproveExpenses over the expense
\* document e (as loaded by the find) with _id id
bulkItem(id, e, actor, option, view, flt, acc) ==
  LET st == acc.st
      r == acc.results
      amt == bulkApprovedAmount(e, option)
      failed(reason, w) ==
        [r EXCEPT !.failed = Append(@, [expenseId |-> id, reason |-> reason]),
                  !.writes = @ \o w]
      e2 == [e EXCEPT !.status = "approved", !.approvedOption = option,
                      !.approvedAmount = amt.value, !.approvedBy = actor,
                      !.bulkApproved = TRUE]
      st1 == [st EXCEPT !.expenses[id] = e2]
      j == e.journeyId
      st2 == IF j # NoId
             THEN [st1 EXCEPT !.journeys[j].additionalExpensesTotal =
                                  journeyTotal(@, amt.value)]
             ELSE st1
      w1 == <<[coll |-> "expense", exp |-> id]>>
      w2 == IF j # NoId THEN w1 \o <<[coll |-> "journey", exp |-> id]>> ELSE w1
      w3 == w2 \o <<[coll |-> "user", exp |-> id]>>
      prev == st.advanceBalance[e.userId]
      st3 == [st2 EXCEPT !.advanceBalance[e.userId] = prev - amt.value]
  IN IF IsLockedView(view, e.date)
       THEN [st |-> st, results |-> failed("locked", <<>>)]
     ELSE IF ~amt.ok
       THEN [st |-> st, results |-> failed(amt.error, <<>>)]
     ELSE IF FaultAt(flt, "expenseSave", id)
       THEN [st |-> st, results |-> failed("error", <<>>)]
     ELSE IF j # NoId /\ FaultAt(flt, "journeySave", id)
       THEN [st |-> st1, results |-> failed("error", w1)]
     ELSE IF FaultAt(flt, "userMissing", id)
       THEN [st |-> st2, results |-> failed("User not found", w2)]
     ELSE IF FaultAt(flt, "userSave", id)
       THEN [st |-> st2, results |-> failed("error", w2)]
     ELSE [st |-> st3,
           results |->
             [r EXCEPT !.approved = Append(@, [expenseId |-> id,
                                              userId |-> e.userId,
                                              approvedAmount |-> amt.value,
                                              previous |-> prev,
                                              current |-> prev - amt.value]),
                       !.writes = @ \o w3]]

RECURSIVE bulkLoopAbortOnFailure(_, _, _, _, _, _)
\* a loop that gives up at the first item that fails
bulkLoopAbortOnFailure(items, actor, option, view, flt, acc) ==
  IF items = <<>> \/ acc.results.failed # <<>> THEN acc
  ELSE bulkLoopAbortOnFailure(Tail(items), actor, option, view, flt,
                              bulkItem(Head(items), expenses[Head(items)], actor,
                                       option, view, flt, acc))

RECURSIVE bulkLoop(_, _, _, _, _, _)
\* for (const expense of filteredExpenses) { ... }
bulkLoop(items, actor, option, view, flt, acc) ==
  IF items = <<>> THEN acc
  ELSE bulkLoop(Tail(items), actor, option, view, flt,
                bulkItem(Head(items), expenses[Head(items)], actor, option,
                         view, flt, acc))

RECURSIVE PendingInArrayOrder(_, _)
PendingInArrayOrder(ids, seen) ==
  IF ids = <<>> THEN <<>>
  ELSE IF /\ Head(ids) \notin seen
          /\ Stored(Head(ids))
          /\ expenses[Head(ids)].status = "pending"
       THEN <<Head(ids)>> \o PendingInArrayOrder(Tail(ids), seen \cup {Head(ids)})
       ELSE PendingInArrayOrder(Tail(ids), seen)

\* a query whose result follows the order of expenseIds
findPendingInArrayOrder(expenseIds) == PendingInArrayOrder(expenseIds, {})

\* Expense.find({ _id: { $in: expenseIds }, status: 'pending' }): the matching
\* documents in _id order, whatever the order of expenseIds
findPending(expenseIds) ==
  SelectIdx(Len(expenses),
            [i \in ExpenseIds |-> /\ expenses[i].exists
                                  /\ i \in Range(expenseIds)
                                  /\ expenses[i].status = "pending"], 1)

\* bulkApproveExpenses
bulkApproveExpensesOut(actor, expenseIds, option, maxVariance, view, flt) ==
  LET found == findPending(expenseIds)
      accessible ==
        IF RoleOf(actor) = "admin"
        THEN SelectSeq(found, LAMBDA i : AssignedTo(expenses[i].userId) = actor)
        ELSE found
      filtered ==
        IF maxVariance # Nil /\ maxVariance >= 0
        THEN SelectSeq(accessible,
                       LAMBDA i : PassesVarianceFilter(expenses[i], maxVariance))
        ELSE accessible
      out == bulkLoop(filtered, actor, option, view, flt,
                      [st |-> Store, results |-> NoResults])
  IN IF RoleOf(actor) \notin {"admin", "superadmin"}
       THEN [st |-> Store, res |-> Fail("forbidden")]
     ELSE IF expenseIds = <<>>
       THEN [st |-> Store, res |-> Fail("badRequest")]
     ELSE IF found = <<>>
       THEN [st |-> Store, res |-> Fail("notFound")]
     ELSE IF accessible = <<>>
       THEN [st |-> Store, res |-> Fail("forbidden")]
     ELSE [st |-> out.st,
           res |-> [kind |-> "ok",
                    approved |-> out.results.approved,
                    failed |-> out.results.failed,
                    writes |-> out.results.writes,
                    totalApproved |-> Len(out.results.approved),
                    totalFailed |-> Len(out.results.failed),
                    totalFiltered |-> Len(found) - Len(filtered)]]


\* -------------------------------------------------------- expenseController
\* createExpense by employee userId; journeyId is given iff the category is
\* journey (createExpenseSchema)
createExpenseOut(userId, type, category, date, amount, journeyId, sd, md, rate, view) ==
  LET linked == (category = "journey" \/ type = "journey") /\ journeyId # NoId
      jn == journeys[journeyId]
      existing == jn.expenseId
      expense ==
        NewExpense(userId, type, category,
                   IF category = "journey" \/ type = "journey"
                     THEN journeyId ELSE NoId,
                   date, amount,
                   IF type = "journey" THEN sd ELSE Nil,
                   IF type = "journey" /\ md # Nil THEN md ELSE 0,
                   IF type = "journey" THEN rate ELSE Nil)
  IN IF IsLockedView(view, date)
       THEN [st |-> Store, res |-> Fail("periodLocked")]
     ELSE IF category = "journey" /\ journeyId = NoId
       THEN [st |-> Store, res |-> Fail("badRequest")]
     ELSE IF linked /\ journeyId \notin JourneyIds
       THEN [st |-> Store, res |-> Fail("notFound")]
     ELSE IF linked /\ jn.userId # userId
       THEN [st |-> Store, res |-> Fail("forbidden")]
     ELSE IF linked /\ existing # NoId /\ Stored(existing)
       THEN [st |-> [Store EXCEPT !.expenses[existing].amount = @ + amount],
             res |-> [kind |-> "added", expenseId |-> existing]]
     ELSE [st |-> [Store EXCEPT !.expenses = Append(@, expense)],
           res |-> [kind |-> "created", expenseId |-> Len(expenses) + 1]]

\* updateExpense
updateExpenseOut(actor, id, patch, view) ==
  LET e == expenses[id]
      t == IF patch.type # "none" THEN patch.type ELSE e.type
      e2 == [e EXCEPT !.type = t,
                      !.date = IF patch.date # Nil THEN patch.date ELSE @,
                      !.amount = IF patch.amount # Nil THEN patch.amount ELSE @,
                      !.manualDistance =
                         IF patch.manualDistance # Nil /\ t = "journey"
                         THEN patch.manualDistance ELSE @]
  IN IF ~Stored(id)
       THEN [st |-> Store, res |-> Fail("notFound")]
     ELSE IF RoleOf(actor) # "admin" /\ e.userId # actor
       THEN [st |-> Store, res |-> Fail("forbidden")]
     ELSE IF e.status # "pending"
       THEN [st |-> Store, res |-> Fail("alreadyProcessed")]
     ELSE IF IsLockedView(view, e.date)
       THEN [st |-> Store, res |-> Fail("periodLocked")]
     ELSE [st |-> [Store EXCEPT !.expenses[id] = e2],
           res |-> [kind |-> "ok", expenseId |-> id]]

\* deleteExpense
deleteExpenseOut(actor, id, view) ==
  LET e == expenses[id]
  IN IF ~Stored(id)
       THEN [st |-> Store, res |-> Fail("notFound")]
     ELSE IF RoleOf(actor) # "admin" /\ e.userId # actor
       THEN [st |-> Store, res |-> Fail("forbidden")]
     ELSE IF e.status = "approved"
       THEN [st |-> Store, res |-> Fail("badRequest")]
     ELSE IF IsLockedView(view, e.date)
       THEN [st |-> Store, res |-> Fail("periodLocked")]
     ELSE [st |-> [Store EXCEPT !.expenses[id].exists = FALSE],
           res |-> [kind |-> "ok", expenseId |-> id]]

\* -------------------------------------------------------------------- Audit
\* Audit.log(data): a failing save is caught, written to the console and null
\* is returned
auditLog(saveFails) == IF saveFails THEN "null" ELSE "saved"

\* Audit.create(data), the Model.create of mongoose: a failing save rejects
auditCreate(saveFails) == IF saveFails THEN "thrown" ELSE "saved"

\* ------------------------------------------------------- settingsController
\* setting.validateValue(value) of RATE_PER_KM: validation { min: 0, max: 100 }
validateValue(value) == value >= 0 /\ value <= RateMax

\* updateSetting of RATE_PER_KM: the setting is saved before the audit entry
\* is created with Audit.create, which is not guarded
updateSettingOut(actor, value, flt) ==
  IF ratePerKm = Nil
    THEN [rate |-> ratePerKm, res |-> Fail("notFound")]
  ELSE IF ~validateValue(value)
    THEN [rate |-> ratePerKm, res |-> Fail("badRequest")]
  ELSE IF FaultAt(flt, "settingSave", NoId)
    THEN [rate |-> ratePerKm, res |-> Fail("error")]
  ELSE IF auditCreate(FaultAt(flt, "auditLog", NoId)) = "thrown"
    THEN [rate |-> value, res |-> Fail("error")]
  ELSE [rate |-> value, res |-> [kind |-> "ok", value |-> value]]

\* -------------------------------------------------------- distanceCalculator
\* how one request to the Distance Matrix API ends: a result, a failure whose
\* message holds OVER_QUERY_LIMIT, or any other failure (HTTP error, timeout,
\* network error, another API status, no route)
Outcomes == {"ok", "overQueryLimit", "failed"}

NoResult == [source |-> "none", distance |-> Nil, error |-> "none"]

\* calculateDistanceWithHaversine(origin, destination)
calculateDistanceWithHaversine ==
  [source |-> "haversine", distance |-> Haversine, error |-> "none"]

\* calculateDistance(origin, destination, { forceHaversine, retries }) up to
\* its first remote attempt: valid says whether both coordinates are valid,
\* apiKey whether GOOGLE_MAPS_API_KEY is set; with retries below 0 the loop
\* body never runs and reading lastError.message raises
calculateDistance(caller, journey, valid, apiKey, forceHaversine, retries) ==
  LET call == [caller |-> caller, journey |-> journey, valid |-> valid,
               apiKey |-> apiKey, forceHaversine |-> forceHaversine,
               retries |-> retries, attempt |-> 0, outcomes |-> <<>>,
               pc |-> "attempt", result |-> NoResult]
  IN IF ~valid
       THEN [call EXCEPT !.pc = "raised", !.result.error = "invalidCoordinates"]
     ELSE IF forceHaversine \/ ~apiKey
       THEN [call EXCEPT !.pc = "returned",
                         !.result = calculateDistanceWithHaversine]
     ELSE IF retries < 0
       THEN [call EXCEPT !.pc = "raised", !.result.error = "noAttempt"]
     ELSE call

\* a loop that tries again after every failure
remoteAttemptRetryingAll(call, outcome) ==
  LET c == [call EXCEPT !.outcomes = Append(@, outcome)]
  IN IF outcome = "ok"
       THEN [c EXCEPT !.pc = "returned",
                      !.result = [source |-> "google",
                                  distance |-> RoadDistance, error |-> "none"]]
     ELSE IF call.attempt < call.retries
       THEN [c EXCEPT !.attempt = @ + 1]
     ELSE [c EXCEPT !.pc = "returned",
                    !.result = [calculateDistanceWithHaversine
                                EXCEPT !.error = outcome]]

\* one iteration of the retry loop of calculateDistance, the remote request
\* ending in outcome, and the fallback after the loop
remoteAttempt(call, outcome) ==
  LET c == [call EXCEPT !.outcomes = Append(@, outcome)]
  IN IF outcome = "ok"
       THEN [c EXCEPT !.pc = "returned",
                      !.result = [source |-> "google",
                                  distance |-> RoadDistance, error |-> "none"]]
     ELSE IF outcome = "overQueryLimit" /\ call.attempt < call.retries
       THEN [c EXCEPT !.attempt = @ + 1]
     ELSE [c EXCEPT !.pc = "returned",
                    !.result = [calculateDistanceWithHaversine
                                EXCEPT !.error = outcome]]

\* -------------------------------------------------------- journeyController
\* Settings.getRatePerKm()
getRatePerKm == IF ratePerKm = Nil \/ ratePerKm = 0 THEN DefaultRate ELSE ratePerKm

\* calculateJourneyCost(distance, rate), for a valid rate
calculateJourneyCost(distance, rate) == ToFixed2(distance * rate)

\* a lookup that never finds an active journey
findNoActiveJourney(userId) == {}

\* Journey.findActiveJourney(userId): findOne({ userId, status: 'active' })
findActiveJourney(userId) ==
  {j \in JourneyIds : journeys[j].userId = userId /\ journeys[j].status = "active"}

NewJourney(userId, gpsOffline) ==
  [userId |-> userId, status |-> "active", gpsOffline |-> gpsOffline,
   expenseId |-> NoId, additionalExpensesTotal |-> 0,
   calculatedDistance |-> Nil]

\* startJourney; nameTaken says whether Journey.findOne({ userId, name }) finds
\* an earlier journey of the employee under the name sent
startJourneyOut(userId, gpsOffline, nameTaken, flt) ==
  IF findActiveJourney(userId) # {}
    THEN [st |-> Store, res |-> Fail("badRequest")]
  ELSE IF nameTaken
    THEN [st |-> Store, res |-> Fail("nameTaken")]
  ELSE IF FaultAt(flt, "journeySave", NoId)
    THEN [st |-> Store, res |-> Fail("error")]
  ELSE [st |-> [Store EXCEPT !.journeys =
                  Append(@, NewJourney(userId, gpsOffline))],
        res |-> [kind |-> "created", journeyId |-> Len(journeys) + 1]]

\* cancelJourney
cancelJourneyOut(userId, id, flt) ==
  IF id \notin JourneyIds
    THEN [st |-> Store, res |-> Fail("notFound")]
  ELSE IF journeys[id].userId # userId
    THEN [st |-> Store, res |-> Fail("forbidden")]
  ELSE IF journeys[id].status # "active"
    THEN [st |-> Store, res |-> Fail("badRequest")]
  ELSE IF FaultAt(flt, "journeySave", NoId)
    THEN [st |-> Store, res |-> Fail("error")]
  ELSE [st |-> [Store EXCEPT !.journeys[id].status = "cancelled"],
        res |-> [kind |-> "ok", journeyId |-> id]]

\* logout: every active journey of the user is cancelled, each in its own
\* try/catch, and the logout succeeds whatever happened to them
logoutOut(userId, flt) ==
  [st |-> [Store EXCEPT !.journeys =
             [j \in JourneyIds |->
                IF /\ journeys[j].userId = userId
                   /\ journeys[j].status = "active"
                   /\ ~FaultAt(flt, "journeySave", NoId)
                THEN [journeys[j] EXCEPT !.status = "cancelled"]
                ELSE journeys[j]]],
   res |-> [kind |-> "ok"]]

\* endJourney: haversine is what calculateDistanceWithHaversine returns for
\* the coordinates, manualDistance the optional req.body.manualDistance; the
\* journey is saved as completed before the rate is read and the expense is
\* created, saved and linked
endJourneyOut(userId, id, haversine, manualDistance, flt) ==
  LET jn == journeys[id]
      systemDistance == IF jn.gpsOffline THEN 0 ELSE haversine
      given == manualDistance # Nil /\ manualDistance # 0
      finalDistance == IF given THEN manualDistance ELSE systemDistance
      cost == calculateJourneyCost(finalDistance, getRatePerKm)
      expense == [NewExpense(userId, "journey", "general", id, now, cost,
                             systemDistance,
                             IF given THEN manualDistance ELSE Nil,
                             getRatePerKm)
                  EXCEPT !.systemDistance = systemDistance]
      newId == Len(expenses) + 1
      st1 == [Store EXCEPT !.journeys[id].status = "completed",
                           !.journeys[id].calculatedDistance = finalDistance]
      st2 == [st1 EXCEPT !.expenses = Append(@, expense)]
      st3 == [st2 EXCEPT !.journeys[id].expenseId = newId]
  IN IF id \notin JourneyIds
       THEN [st |-> Store, res |-> Fail("notFound")]
     ELSE IF jn.userId # userId
       THEN [st |-> Store, res |-> Fail("forbidden")]
     ELSE IF jn.status # "active"
       THEN [st |-> Store, res |-> Fail("badRequest")]
     ELSE IF FaultAt(flt, "journeySave", NoId)
       THEN [st |-> Store, res |-> Fail("error")]
     ELSE IF FaultAt(flt, "rateLookup", NoId)
       THEN [st |-> st1, res |-> Fail("error")]
     ELSE IF FaultAt(flt, "expenseSave", NoId)
       THEN [st |-> st1, res |-> Fail("error")]
     ELSE IF FaultAt(flt, "linkSave", NoId)
       THEN [st |-> st2, res |-> Fail("error")]
     ELSE IF auditLog(FaultAt(flt, "auditLog", NoId)) = "thrown"
       THEN [st |-> st3, res |-> Fail("error")]
     ELSE [st |-> st3,
           res |-> [kind |-> "ok", journeyId |-> id, expenseId |-> newId,
                    systemDistance |-> systemDistance,
                    finalDistance |-> finalDistance, cost |-> cost,
                    source |-> IF jn.gpsOffline THEN "none" ELSE "haversine"]]

\* a callback that stores what the remote lookup returned
lookupAppliedToJourney(st, call) ==
  IF call.result.source = "google"
  THEN [st EXCEPT !.journeys[call.journey].calculatedDistance =
                     call.result.distance]
  ELSE st

\* the .then and .catch callbacks endJourney attaches to the lookup it starts:
\* they write to the console and nothing else
onLookupSettled(st, call) ==
  st

\* -------------------------------------------------------- advanceController
\* a note that speaks of a cleared balance only when a surplus is left
noteWithoutZeroSurplus(previousBalance, amount) ==
  IF previousBalance < 0
  THEN IF previousBalance + amount > 0
       THEN [kind |-> "cleared", value |-> previousBalance + amount]
       ELSE [kind |-> "stillNegative", value |-> previousBalance + amount]
  ELSE [kind |-> "added", value |-> previousBalance]

\* reconciliationNote of addAdvance: with a negative previousBalance it says
\* 'Cleared negative balance and added <sum> surplus' or 'Added to negative
\* balance. New balance: <sum>', otherwise 'Added <amount> to existing balance
\* of <previousBalance>'; amounts are whole currency units, which toFixed(2)
\* prints unchanged
reconciliationNote(previousBalance, amount) ==
  IF previousBalance < 0
  THEN IF previousBalance + amount >= 0
       THEN [kind |-> "cleared", value |-> previousBalance + amount]
       ELSE [kind |-> "stillNegative", value |-> previousBalance + amount]
  ELSE [kind |-> "added", value |-> previousBalance]

\* Advance.find({ userId, status: 'completed', isDeleted: false })
completedAdvances(userId) ==
  SelectSeq(advances, LAMBDA a : a.userId = userId /\ a.status = "completed"
                                  /\ ~a.isDeleted)

\* Expense.find({ userId, status: 'approved' })
approvedExpenses(userId) ==
  SelectSeq(expenses, LAMBDA e : e.exists /\ e.userId = userId
                                  /\ e.status = "approved")

RECURSIVE SumAmounts(_)
\* reduce((sum, x) => sum + x.amount, 0)
SumAmounts(s) == IF s = <<>> THEN 0 ELSE Head(s).amount + SumAmounts(Tail(s))

\* calculateBalance(userId)
calculateBalance(userId) ==
  SumAmounts(completedAdvances(userId))
  - SumAmounts([i \in 1..Len(approvedExpenses(userId)) |->
                 [amount |-> approvedExpenses(userId)[i].approvedAmount]])

RECURSIVE InsertByDate(_, _)
\* the position Array.prototype.sort (stable) gives t among the sorted s
InsertByDate(t, s) ==
  IF s = <<>> THEN <<t>>
  ELSE IF t.date < Head(s).date THEN <<t>> \o s
  ELSE <<Head(s)>> \o InsertByDate(t, Tail(s))

RECURSIVE SortByDate(_)
SortByDate(s) ==
  IF s = <<>> THEN <<>>
  ELSE InsertByDate(s[Len(s)], SortByDate(SubSeq(s, 1, Len(s) - 1)))

RECURSIVE RunningBalances(_, _)
\* allTransactions.forEach(t => { runningBalance += t.amount; ... })
RunningBalances(s, runningBalance) ==
  IF s = <<>> THEN <<>>
  ELSE <<runningBalance + Head(s).amount>>
       \o RunningBalances(Tail(s), runningBalance + Head(s).amount)

\* the transactions of getAdvanceHistory with their running balances
getAdvanceHistory(userId) ==
  LET adv == completedAdvances(userId)
      exps == approvedExpenses(userId)
      all == [i \in 1..Len(adv) |->
                [type |-> "advance", date |-> adv[i].date, amount |-> adv[i].amount]]
             \o [i \in 1..Len(exps) |->
                [type |-> "expense", date |-> exps[i].date,
                 amount |-> 0 - exps[i].approvedAmount]]
  IN RunningBalances(SortByDate(all), 0)

\* the running balance of the last transaction of the replay
finalRunningBalance(userId) ==
  LET h == getAdvanceHistory(userId)
  IN IF h = <<>> THEN 0 ELSE h[Len(h)]

NoProcs == <<>>

\* ------------------------------------------------------------------ actions
\* Every action draws the request from the input sets of a profile P, so that
\* each specification below explores the requests its properties are about;
\* req and res show the last request and its response when P.logs names the
\* operation, and nothing otherwise.
Log(P, request, response) ==
  /\ req' = IF request.op \in P.logs THEN request ELSE NoReq
  /\ res' = IF request.op \in P.logs THEN response ELSE NoRes

Respond(P, out, request) ==
  /\ expenses' = out.st.expenses
  /\ journeys' = out.st.journeys
  /\ advanceBalance' = out.st.advanceBalance
  /\ Log(P, request, out.res)

CreateExpense(P) ==
  \E u \in P.owners, k \in P.kinds, d \in P.months, a \in Amounts,
     j \in 0..P.cap, view \in LockViews :
    /\ Len(expenses) < MaxExpenses
    /\ (j # NoId) <=> (k.category = "journey")
    /\ \A i \in ExpenseIds : expenses[i].amount + a <= MaxAmount
    /\ Respond(P, createExpenseOut(u, k.type, k.category, d, a, j, k.sd, k.md,
                                k.rate, view),
               [op |-> "createExpense", actor |-> u, id |-> NoId, date |-> d])
    /\ UNCHANGED <<advances, monthLocks, ratePerKm, now, procs, lookups>>

UpdateExpense(P) ==
  \E actor \in P.actors, id \in 1..MaxExpenses, patch \in P.patches,
     view \in LockViews :
    /\ Respond(P, updateExpenseOut(actor, id, patch, view),
               [op |-> "updateExpense", actor |-> actor, id |-> id,
                date |-> patch.date])
    /\ UNCHANGED <<advances, monthLocks, ratePerKm, now, procs, lookups>>

DeleteExpense(P) ==
  \E actor \in P.actors, id \in 1..MaxExpenses, view \in LockViews :
    /\ Respond(P, deleteExpenseOut(actor, id, view),
               [op |-> "deleteExpense", actor |-> actor, id |-> id])
    /\ UNCHANGED <<advances, monthLocks, ratePerKm, now, procs, lookups>>

\* approveExpenseSchema: adminDistance is required for option 3 and forbidden
\* for the others
ApproveExpense(P) ==
  \E actor \in P.actors, id \in 1..MaxExpenses, o \in P.options,
     view \in LockViews, flt \in P.faults :
    /\ flt.at \in {NoId, id}
    /\ Respond(P, approveExpenseOut(actor, id, o,
                                 IF o = 3 THEN AdminDistance ELSE Nil, view, flt),
               [op |-> "approveExpense", actor |-> actor, id |-> id,
                option |-> o,
                adminDistance |-> IF o = 3 THEN AdminDistance ELSE Nil])
    /\ UNCHANGED <<advances, monthLocks, ratePerKm, now, procs, lookups>>

\* rejectExpenseSchema: rejectionReason is a required, non-empty string
RejectExpense(P) ==
  \E actor \in P.actors, id \in 1..MaxExpenses, reason \in Reasons,
     view \in LockViews, flt \in P.faults :
    /\ flt.at \in {NoId, id}
    /\ flt.pt \in {"none", "expenseSave"}
    /\ Respond(P, rejectExpenseOut(actor, id, reason, view, flt),
               [op |-> "rejectExpense", actor |-> actor, id |-> id,
                rejectionReason |-> reason])
    /\ UNCHANGED <<advances, monthLocks, ratePerKm, now, procs, lookups>>

\* the expenseIds arrays a caller may send: up to MaxBulk ids, none twice, in
\* any order
IdLists ==
  {ids \in UNION {[1..n -> 1..MaxExpenses] : n \in 1..MaxBulk} :
     \A p, q \in 1..Len(ids) : p # q => ids[p] # ids[q]}

BulkApproveExpenses(P) ==
  \E actor \in P.actors, ids \in P.lists, o \in P.options, mv \in P.variances,
     view \in LockViews, flt \in P.faults :
    /\ Respond(P, bulkApproveExpensesOut(actor, ids, o, mv, view, flt),
               [op |-> "bulkApproveExpenses", actor |-> actor, ids |-> ids,
                option |-> o, maxVariance |-> mv])
    /\ UNCHANGED <<advances, monthLocks, ratePerKm, now, procs, lookups>>

\* addAdvance (behind adminOnly)
AddAdvance(P) ==
  \E actor \in P.actors \cap (Admins \cup Supers), u \in P.owners,
     a \in AdvanceAmounts :
    /\ Len(advances) < MaxAdvances
    /\ IF RoleOf(actor) = "admin" /\ AssignedTo(u) # actor
       THEN UNCHANGED <<advances, advanceBalance>>
       ELSE /\ advances' = Append(advances, [userId |-> u, amount |-> a, date |-> now,
                                             status |-> "completed",
                                             isDeleted |-> FALSE])
            /\ advanceBalance' = [advanceBalance EXCEPT ![u] = @ + a]
    /\ Log(P, [op |-> "addAdvance", actor |-> actor, userId |-> u, amount |-> a],
            IF RoleOf(actor) = "admin" /\ AssignedTo(u) # actor
            THEN Fail("forbidden")
            ELSE [kind |-> "created", previousBalance |-> advanceBalance[u],
                  newBalance |-> advanceBalance[u] + a,
                  reconciliationNote |-> reconciliationNote(advanceBalance[u], a)])
    /\ UNCHANGED <<expenses, journeys, monthLocks, ratePerKm, now, procs, lookups>>

\* startJourney; a name can only be taken by an earlier journey of the caller
StartJourney(P) ==
  \E u \in P.owners, gpsOffline \in P.gps, nameTaken \in BOOLEAN,
     flt \in {NoFault} \cup P.faults :
    /\ Len(journeys) < P.cap \/ findActiveJourney(u) # {}
    /\ nameTaken => \E j \in JourneyIds : journeys[j].userId = u
    /\ flt.at = NoId
    /\ Respond(P, startJourneyOut(u, gpsOffline, nameTaken, flt),
               [op |-> "startJourney", actor |-> u])
    /\ UNCHANGED <<advances, monthLocks, ratePerKm, now, procs, lookups>>

CancelJourney(P) ==
  \E u \in P.owners, id \in 1..P.cap, flt \in {NoFault} \cup P.faults :
    /\ flt.at = NoId
    /\ Respond(P, cancelJourneyOut(u, id, flt),
               [op |-> "cancelJourney", actor |-> u, id |-> id])
    /\ UNCHANGED <<advances, monthLocks, ratePerKm, now, procs, lookups>>

Logout(P) ==
  \E u \in P.owners, flt \in {NoFault} \cup P.faults :
    /\ flt.at = NoId
    /\ Respond(P, logoutOut(u, flt), [op |-> "logout", actor |-> u])
    /\ UNCHANGED <<advances, monthLocks, ratePerKm, now, procs, lookups>>

\* endJourney; for a journey that is not gpsOffline the handler starts
\* calculateDistance(start, end, { retries: 0 }) without awaiting it: early is
\* how its remote request ends while the handler is still running ("none" when
\* it is still in flight at the response); without an API key the promise is
\* resolved at once, no remote request is made and the call is not recorded;
\* a callback of a promise settled early runs inside the handler
EndJourney(P) ==
  \E u \in P.owners, id \in 1..P.cap, md \in P.endDists,
     flt \in {NoFault} \cup P.faults, apiKey \in P.keys,
     early \in {"none"} \cup Outcomes :
    LET out == endJourneyOut(u, id, Haversine, md, flt)
        starts == /\ id \in JourneyIds
                  /\ journeys[id].userId = u
                  /\ journeys[id].status = "active"
                  /\ ~journeys[id].gpsOffline
        call == calculateDistance("endJourney", id, TRUE, apiKey, FALSE, 0)
        settled == IF call.pc = "attempt" /\ early # "none"
                   THEN remoteAttempt(call, early) ELSE call
        inFlight == starts /\ settled.pc = "attempt"
    IN /\ Len(expenses) < MaxExpenses
       /\ flt.at = NoId
       /\ early # "none" => starts /\ apiKey
       /\ starts /\ apiKey => Len(lookups) < MaxCalls
       /\ Respond(P, IF starts /\ ~inFlight
                     THEN [out EXCEPT !.st = onLookupSettled(@, settled)]
                     ELSE out,
                  [op |-> "endJourney", actor |-> u, id |-> id,
                   manualDistance |-> md])
       /\ lookups' = IF starts /\ apiKey THEN Append(lookups, settled)
                     ELSE lookups
       /\ UNCHANGED <<advances, monthLocks, ratePerKm, now, procs>>

\* a call of getVarianceCategory(p)
GetVarianceCategory(P) ==
  \E p \in Percents :
    /\ Log(P, [op |-> "getVarianceCategory", p |-> p],
            IF getVarianceCategory(p) = "thrown" THEN Fail("error")
            ELSE [kind |-> "ok", category |-> getVarianceCategory(p)])
    /\ UNCHANGED <<advanceBalance, advances, expenses, journeys, monthLocks,
                   ratePerKm, now, procs, lookups>>

\* a stored expense is serialised with its virtuals (toJSON: virtuals)
ReadVarianceCategory(P) ==
  \E id \in ExpenseIds :
    /\ expenses[id].exists
    /\ Log(P, [op |-> "varianceCategory", id |-> id],
            [kind |-> "ok", category |-> varianceCategory(expenses[id])])
    /\ UNCHANGED <<advanceBalance, advances, expenses, journeys, monthLocks,
                   ratePerKm, now, procs, lookups>>

\* PUT /api/settings/RATE_PER_KM by an admin or a superadmin
UpdateSetting(P) ==
  \E actor \in P.actors \cap (Admins \cup Supers), value \in SettingValues,
     flt \in {NoFault} \cup P.faults :
    LET out == updateSettingOut(actor, value, flt)
    IN /\ flt.at = NoId
       /\ ratePerKm' = out.rate
       /\ Log(P, [op |-> "updateSetting", actor |-> actor, value |-> value],
               out.res)
       /\ UNCHANGED <<advanceBalance, advances, expenses, journeys, monthLocks,
                      now, procs, lookups>>

\* a direct call of calculateDistance(origin, destination, options)
CalculateDistance(P) ==
  \E valid \in BOOLEAN, apiKey \in P.keys, forceHaversine \in BOOLEAN,
     retries \in P.retries :
    /\ Len(lookups) < MaxCalls
    /\ lookups' = Append(lookups, calculateDistance("direct", NoId, valid, apiKey,
                                                    forceHaversine, retries))
    /\ UNCHANGED <<advanceBalance, advances, expenses, journeys, monthLocks,
                   ratePerKm, now, req, res, procs>>

\* the remote request of a pending calculateDistance call ends (axios gives
\* up after 10 s, so every request ends); a call endJourney started runs its
\* callback when it settles
RemoteAnswer ==
  \E p \in 1..Len(lookups), outcome \in Outcomes :
    LET c == remoteAttempt(lookups[p], outcome)
        done == c.pc # "attempt" /\ c.caller = "endJourney"
        st == IF done THEN onLookupSettled(Store, c) ELSE Store
    IN /\ lookups[p].pc = "attempt"
       /\ lookups' = [lookups EXCEPT ![p] = c]
       /\ expenses' = st.expenses
       /\ journeys' = st.journeys
       /\ advanceBalance' = st.advanceBalance
       /\ UNCHANGED <<advances, monthLocks, ratePerKm, now, req, res, procs>>

\* MonthLock.createLock(userId, year, month, ...)
CreateLock(P) ==
  \E u \in P.lockUsers, m \in P.lockMonths :
    /\ monthLocks[u][m] # "locked"
    /\ monthLocks' = [monthLocks EXCEPT ![u][m] = "locked"]
    /\ Log(P, [op |-> "createLock", userId |-> u, month |-> m], [kind |-> "ok"])
    /\ UNCHANGED <<advanceBalance, advances, expenses, journeys, ratePerKm,
                   now, procs, lookups>>

\* monthLock.unlock(unlockedBy, reason)
Unlock(P) ==
  \E u \in P.lockUsers, m \in P.lockMonths :
    /\ monthLocks[u][m] = "locked"
    /\ monthLocks' = [monthLocks EXCEPT ![u][m] = "unlocked"]
    /\ Log(P, [op |-> "unlock", userId |-> u, month |-> m], [kind |-> "ok"])
    /\ UNCHANGED <<advanceBalance, advances, expenses, journeys, ratePerKm,
                   now, procs, lookups>>

\* the calendar moves on to the next month
Tick ==
  /\ now < MaxMonth
  /\ now' = now + 1
  /\ req' = NoReq
  /\ res' = NoRes
  /\ UNCHANGED <<advanceBalance, advances, expenses, journeys, monthLocks,
                 ratePerKm, procs, lookups>>

\* ------------------------------------------------- requests in flight
\* A controller is an async function: it runs alone between two awaits and
\* any other request may run at an await. A request in flight is a record of
\* procs: pc is the await it stands at, items and docs are the expense ids
\* still to process and the documents as its query loaded them, amt, jprev
\* and prev are the locals approvedAmount, previousJourneyTotal and
\* previousBalance.
InFlight(op, actor, option, adminDistance, ids, items) ==
  [op |-> op, actor |-> actor, option |-> option,
   adminDistance |-> adminDistance, ids |-> ids,
   pc |-> IF items = <<>> THEN "done" ELSE "saveExpense",
   items |-> items, docs |-> [k \in 1..Len(items) |-> expenses[items[k]]],
   amt |-> Nil, jprev |-> Nil, prev |-> Nil,
   approved |-> <<>>, failed |-> <<>>, kind |-> "none"]

Refused(op, actor, option, adminDistance, ids, kind) ==
  [InFlight(op, actor, option, adminDistance, ids, <<>>) EXCEPT !.kind = kind]

\* the item a request works on has been dealt with: go on to the next one
NextItem(r) ==
  [r EXCEPT !.items = Tail(@), !.docs = Tail(@),
            !.amt = Nil, !.jprev = Nil, !.prev = Nil,
            !.pc = IF Len(r.items) > 1 THEN "saveExpense" ELSE "done",
            !.kind = IF Len(r.items) > 1 THEN @ ELSE "ok"]

\* approveExpense up to its first write: Expense.findById and the checks on
\* the loaded document
ApproveFind(P) ==
  \E actor \in P.actors, id \in 1..MaxExpenses, o \in P.options,
     view \in LockViews :
    LET ad == IF o = 3 THEN AdminDistance ELSE Nil
        refuse(kind) == Refused("approveExpense", actor, o, ad, <<id>>, kind)
    IN /\ Len(procs) < MaxProcs
       /\ procs' = Append(procs,
            IF RoleOf(actor) \notin {"admin", "superadmin"} THEN refuse("forbidden")
            ELSE IF ~Stored(id) THEN refuse("notFound")
            ELSE IF RoleOf(actor) = "admin" /\ AssignedTo(expenses[id].userId) # actor
              THEN refuse("forbidden")
            ELSE IF expenses[id].status # "pending" THEN refuse("alreadyProcessed")
            ELSE IF IsLockedView(view, expenses[id].date) THEN refuse("periodLocked")
            ELSE InFlight("approveExpense", actor, o, ad, <<id>>, <<id>>))
       /\ UNCHANGED <<db, req, res>>

\* bulkApproveExpenses up to its loop: the query and the two filters
BulkFind(P) ==
  \E actor \in P.actors, ids \in P.lists, o \in P.options :
    LET found == findPending(ids)
        accessible ==
          IF RoleOf(actor) = "admin"
          THEN SelectSeq(found, LAMBDA i : AssignedTo(expenses[i].userId) = actor)
          ELSE found
        refuse(kind) == Refused("bulkApproveExpenses", actor, o, Nil, ids, kind)
    IN /\ Len(procs) < MaxProcs
       /\ procs' = Append(procs,
            IF RoleOf(actor) \notin {"admin", "superadmin"} THEN refuse("forbidden")
            ELSE IF found = <<>> THEN refuse("notFound")
            ELSE IF accessible = <<>> THEN refuse("forbidden")
            ELSE InFlight("bulkApproveExpenses", actor, o, Nil, ids, accessible))
       /\ UNCHANGED <<db, req, res>>

\* rejectExpense up to its write: Expense.findById and the checks on the
\* loaded document; MonthLock.findOne is awaited before the write
RejectFind(P) ==
  \E actor \in P.actors, id \in 1..MaxExpenses, reason \in Reasons,
     view \in LockViews :
    LET refuse(kind) == Refused("rejectExpense", actor, Nil, Nil, <<id>>, kind)
    IN /\ Len(procs) < MaxProcs
       /\ procs' = Append(procs,
            IF RoleOf(actor) \notin {"admin", "superadmin"} THEN refuse("forbidden")
            ELSE IF ~Stored(id) THEN refuse("notFound")
            ELSE IF RoleOf(actor) = "admin" /\ AssignedTo(expenses[id].userId) # actor
              THEN refuse("forbidden")
            ELSE IF expenses[id].status # "pending" THEN refuse("alreadyProcessed")
            ELSE IF IsLockedView(view, expenses[id].date) THEN refuse("periodLocked")
            ELSE [InFlight("rejectExpense", actor, Nil, Nil, <<id>>, <<id>>)
                  EXCEPT !.pc = "saveRejected"])
       /\ UNCHANGED <<db, req, res>>

\* expense.status = 'rejected'; ...; expense.save() of rejectExpense: save()
\* writes the paths the handler modified, whatever the stored status is now
SaveRejected ==
  \E p \in 1..Len(procs), reason \in Reasons :
    LET id == Head(procs[p].items)
    IN /\ procs[p].pc = "saveRejected"
       /\ expenses' = [expenses EXCEPT
                         ![id].status = "rejected",
                         ![id].rejectionReason = reason,
                         ![id].approvedBy = procs[p].actor]
       /\ procs' = [procs EXCEPT ![p].pc = "done", ![p].kind = "ok"]
       /\ UNCHANGED <<advanceBalance, advances, journeys, monthLocks, ratePerKm,
                      now, req, res, lookups>>

\* a startJourney request between its awaits
Starting(actor, gpsOffline, pc, kind) ==
  [op |-> "startJourney", actor |-> actor, gpsOffline |-> gpsOffline,
   pc |-> pc, kind |-> kind, journeyId |-> NoId]

\* startJourney up to its first await: Journey.findActiveJourney(userId) and
\* the refusal when it finds one
StartFind(P) ==
  \E u \in P.owners, gpsOffline \in P.gps :
    /\ Len(procs) < MaxProcs
    /\ procs' = Append(procs,
         IF findActiveJourney(u) # {}
         THEN Starting(u, gpsOffline, "done", "badRequest")
         ELSE Starting(u, gpsOffline, "findName", "none"))
    /\ UNCHANGED <<db, req, res>>

\* Journey.findOne({ userId, name }) of startJourney; nameTaken says whether
\* it finds an earlier journey of the employee under the name sent
FindName ==
  \E p \in 1..Len(procs), nameTaken \in BOOLEAN :
    /\ procs[p].pc = "findName"
    /\ nameTaken => \E j \in JourneyIds : journeys[j].userId = procs[p].actor
    /\ procs' = IF nameTaken
                THEN [procs EXCEPT ![p].pc = "done", ![p].kind = "nameTaken"]
                ELSE [procs EXCEPT ![p].pc = "saveJourney"]
    /\ UNCHANGED <<db, req, res>>

\* new Journey({ ..., status: 'active' }) and journey.save() of startJourney:
\* the insert is not conditional on what the collection holds by now
InsertJourney(P) ==
  \E p \in 1..Len(procs), flt \in {NoFault} \cup P.faults :
    /\ procs[p].pc = "saveJourney"
    /\ flt.at = NoId
    /\ IF FaultAt(flt, "journeySave", NoId)
       THEN /\ procs' = [procs EXCEPT ![p].pc = "done", ![p].kind = "error"]
            /\ UNCHANGED journeys
       ELSE /\ Len(journeys) < P.cap
            /\ journeys' = Append(journeys,
                 NewJourney(procs[p].actor, procs[p].gpsOffline))
            /\ procs' = [procs EXCEPT ![p].pc = "done", ![p].kind = "created",
                                      ![p].journeyId = Len(journeys) + 1]
    /\ UNCHANGED <<expenses, advanceBalance, advances, monthLocks, ratePerKm,
                   now, req, res, lookups>>

\* the amount calculation and expense.save() of the item at hand; save()
\* writes the paths the handler modified
SaveExpense ==
  \E p \in 1..Len(procs), view \in LockViews :
    LET r == procs[p]
        id == Head(r.items)
        e == Head(r.docs)
        bulk == r.op = "bulkApproveExpenses"
        amt == IF e.type = "journey"
               THEN calculateApprovedAmount(e, r.option, r.adminDistance)
               ELSE [ok |-> TRUE, value |-> e.amount, error |-> "none"]
        fail(reason) ==
          NextItem([r EXCEPT !.failed = Append(@, [expenseId |-> id,
                                                   reason |-> reason])])
    IN /\ r.pc = "saveExpense"
       /\ IF bulk /\ IsLockedView(view, e.date)
            THEN procs' = [procs EXCEPT ![p] = fail("locked")]
                 /\ UNCHANGED expenses
          ELSE IF ~amt.ok
            THEN procs' = [procs EXCEPT ![p] =
                             IF bulk THEN fail(amt.error)
                             ELSE [r EXCEPT !.pc = "done", !.kind = "badRequest"]]
                 /\ UNCHANGED expenses
          ELSE /\ expenses' =
                    [expenses EXCEPT
                       ![id].status = "approved",
                       ![id].approvedAmount = amt.value,
                       ![id].approvedBy = r.actor,
                       ![id].approvedOption =
                          IF bulk \/ e.type = "journey" THEN r.option ELSE @,
                       ![id].adminDistance =
                          IF ~bulk /\ e.type = "journey" /\ r.option = 3
                          THEN r.adminDistance ELSE @,
                       ![id].bulkApproved = IF bulk THEN TRUE ELSE @]
               /\ procs' = [procs EXCEPT ![p].amt = amt.value,
                                         ![p].pc = IF e.journeyId # NoId
                                                   THEN "findJourney"
                                                   ELSE "findUser"]
       /\ UNCHANGED <<advanceBalance, advances, journeys, monthLocks, ratePerKm,
                      now, req, res, lookups>>

\* Journey.findById(expense.journeyId)
FindJourney ==
  \E p \in 1..Len(procs) :
    /\ procs[p].pc = "findJourney"
    /\ procs' = [procs EXCEPT
                   ![p].jprev = journeys[Head(procs[p].docs).journeyId]
                                  .additionalExpensesTotal,
                   ![p].pc = "saveJourney"]
    /\ UNCHANGED <<db, req, res>>

\* journey.additionalExpensesTotal = previousJourneyTotal + approvedAmount;
\* journey.save()
SaveJourney ==
  \E p \in 1..Len(procs) :
    /\ procs[p].pc = "saveJourney"
    /\ journeys' = [journeys EXCEPT
                      ![Head(procs[p].docs).journeyId].additionalExpensesTotal =
                         journeyTotal(procs[p].jprev, procs[p].amt)]
    /\ procs' = [procs EXCEPT ![p].pc = "findUser"]
    /\ UNCHANGED <<advanceBalance, advances, expenses, monthLocks, ratePerKm,
                   now, req, res, lookups>>

\* User.findById(expense.userId): previousBalance = user.advanceBalance
FindUser ==
  \E p \in 1..Len(procs) :
    /\ procs[p].pc = "findUser"
    /\ procs' = [procs EXCEPT
                   ![p].prev = advanceBalance[Head(procs[p].docs).userId],
                   ![p].pc = "saveUser"]
    /\ UNCHANGED <<db, req, res>>

\* user.advanceBalance = newBalance; user.save(); the item is reported
SaveUser ==
  \E p \in 1..Len(procs) :
    LET r == procs[p]
        e == Head(r.docs)
        balance == IF r.op = "approveExpense" THEN newBalance(r.prev, r.amt)
                   ELSE r.prev - r.amt
    IN /\ r.pc = "saveUser"
       /\ advanceBalance' = [advanceBalance EXCEPT ![e.userId] = balance]
       /\ procs' = [procs EXCEPT ![p] =
                      NextItem([r EXCEPT !.approved =
                                  Append(@, [expenseId |-> Head(r.items),
                                             userId |-> e.userId,
                                             approvedAmount |-> r.amt,
                                             previous |-> r.prev,
                                             current |-> balance])])]
       /\ UNCHANGED <<advances, expenses, journeys, monthLocks, ratePerKm,
                      now, req, res, lookups>>

Init ==
  /\ advanceBalance = [u \in Employees |-> 0]
  /\ advances = <<>>
  /\ expenses = <<>>
  /\ journeys = <<>>
  /\ monthLocks = [u \in Employees |-> [m \in Months |-> "none"]]
  /\ ratePerKm = ConfiguredRate
  /\ now = 1
  /\ req = NoReq
  /\ res = NoRes
  /\ procs = NoProcs
  /\ lookups = <<>>

\* ----------------------------------------------------------- specifications
\* the expense kinds createExpense is asked to create
Kind(t, c, sd, md, r) == [type |-> t, category |-> c, sd |-> sd, md |-> md, rate |-> r]
FoodKind    == Kind("food", "general", Nil, Nil, Nil)
TripKind    == Kind("journey", "general", 2, 3, ConfiguredRate)
NoRateKind  == Kind("journey", "general", 2, 3, Nil)
LinkedKind  == Kind("food", "journey", Nil, Nil, Nil)
SteadyKind  == Kind("journey", "general", 2, 2, ConfiguredRate)
\* journey expenses whose manual distance is 10 %, 10 % and 1/PctScale, 20 %,
\* and 20 % and 1/PctScale above or below the system distance
BandKinds ==
  {Kind("journey", "general", 100 * PctScale, 100 * PctScale + d, ConfiguredRate) :
     d \in {10 * PctScale, 10 * PctScale + 1, 20 * PctScale, 20 * PctScale + 1}}
  \cup {Kind("journey", "general", 100 * PctScale, 100 * PctScale - 10 * PctScale - 1,
              ConfiguredRate)}

\* the req.body of updateExpense; Nil and "none" stand for an absent field
NoPatch == [type |-> "none", date |-> Nil, amount |-> Nil, manualDistance |-> Nil]

\* Ledger: expenses and journeys are created, approved (singly and in bulk),
\* rejected and deleted and advances are added, one request at a time, on
\* reliable storage
Ledger ==
  [owners |-> {"u1"}, kinds |-> {FoodKind, TripKind}, months |-> {1},
   actors |-> {"admin1"}, options |-> {1, 3}, variances |-> {Nil},
   patches |-> {}, endDists |-> {3}, faults |-> {NoFault},
   lockUsers |-> {}, lockMonths |-> {},
   cap |-> MaxJourneys, gps |-> {FALSE}, keys |-> {FALSE}, retries |-> {},
   lists |-> IdLists, logs |-> {}]

Next ==
  \/ CreateExpense(Ledger)
  \/ DeleteExpense(Ledger)
  \/ ApproveExpense(Ledger)
  \/ RejectExpense(Ledger)
  \/ BulkApproveExpenses(Ledger)
  \/ AddAdvance(Ledger)
  \/ StartJourney(Ledger)
  \/ EndJourney(Ledger)

Spec == Init /\ [][Next]_vars

\* Lifecycle: the owner and the assigned admin create, edit, delete, approve
\* (singly and in bulk) and reject expenses, some of them linked to a journey
Lifecycle ==
  [owners |-> {"u1"}, kinds |-> {FoodKind, LinkedKind}, months |-> {1},
   actors |-> {"u1", "admin1"}, options |-> {1}, variances |-> {Nil},
   patches |-> {[NoPatch EXCEPT !.type = "journey"]}, endDists |-> {Nil},
   faults |-> {NoFault}, lockUsers |-> {}, lockMonths |-> {},
   cap |-> MaxJourneys, gps |-> {FALSE}, keys |-> {FALSE}, retries |-> {},
   lists |-> IdLists, logs |-> {"approveExpense", "rejectExpense"}]

NextLifecycle ==
  \/ CreateExpense(Lifecycle)
  \/ UpdateExpense(Lifecycle)
  \/ DeleteExpense(Lifecycle)
  \/ ApproveExpense(Lifecycle)
  \/ RejectExpense(Lifecycle)
  \/ BulkApproveExpenses(Lifecycle)
  \/ StartJourney(Lifecycle)

SpecLifecycle == Init /\ [][NextLifecycle]_vars

\* Pricing: journey-type expenses with and without a stored rate, some edited
\* into another type, are approved singly and in bulk with every option
Pricing ==
  [owners |-> {"u1"}, kinds |-> {TripKind, NoRateKind}, months |-> {1},
   actors |-> {"admin1"}, options |-> Options, variances |-> {Nil},
   patches |-> {[NoPatch EXCEPT !.type = "food"]}, endDists |-> {Nil},
   faults |-> {NoFault}, lockUsers |-> {}, lockMonths |-> {},
   cap |-> MaxJourneys, gps |-> {FALSE}, keys |-> {FALSE}, retries |-> {},
   lists |-> {ids \in IdLists : Len(ids) = 1},
   logs |-> {"approveExpense", "bulkApproveExpenses"}]

NextPricing ==
  \/ CreateExpense(Pricing)
  \/ UpdateExpense(Pricing)
  \/ ApproveExpense(Pricing)
  \/ BulkApproveExpenses(Pricing)

SpecPricing == Init /\ [][NextPricing]_vars

\* OwnLocks: one employee whose months are locked and unlocked creates, edits
\* and deletes expenses and ends journeys; no other employee has lock records
OwnLocks ==
  [owners |-> {"u1"}, kinds |-> {FoodKind, LinkedKind}, months |-> Months,
   actors |-> {"u1"}, options |-> {}, variances |-> {},
   patches |-> {[NoPatch EXCEPT !.date = MaxMonth]}
               \cup {[NoPatch EXCEPT !.amount = a] : a \in Amounts},
   endDists |-> {Nil}, faults |-> {}, lockUsers |-> {"u1"}, lockMonths |-> Months,
   cap |-> MaxJourneys, gps |-> {FALSE}, keys |-> {FALSE}, retries |-> {},
   lists |-> {}, logs |-> {}]

NextOwnLocks ==
  \/ CreateExpense(OwnLocks)
  \/ UpdateExpense(OwnLocks)
  \/ DeleteExpense(OwnLocks)
  \/ StartJourney(OwnLocks)
  \/ EndJourney(OwnLocks)
  \/ CreateLock(OwnLocks)
  \/ Unlock(OwnLocks)
  \/ Tick

SpecOwnLocks == Init /\ [][NextOwnLocks]_vars

\* SharedLocks: two employees have lock records for the same month while the
\* expenses of one of them are created, approved, rejected and deleted
SharedLocks ==
  [owners |-> {"u1"}, kinds |-> {FoodKind}, months |-> {1},
   actors |-> {"admin1", "super1"}, options |-> {1}, variances |-> {Nil},
   patches |-> {}, endDists |-> {}, faults |-> {NoFault},
   lockUsers |-> {"u1", "u2"}, lockMonths |-> {1},
   cap |-> MaxJourneys, gps |-> {FALSE}, keys |-> {FALSE}, retries |-> {},
   lists |-> IdLists, logs |-> {"createExpense", "approveExpense", "rejectExpense", "bulkApproveExpenses"}]

NextSharedLocks ==
  \/ CreateExpense(SharedLocks)
  \/ ApproveExpense(SharedLocks)
  \/ RejectExpense(SharedLocks)
  \/ BulkApproveExpenses(SharedLocks)
  \/ CreateLock(SharedLocks)
  \/ Unlock(SharedLocks)

SpecSharedLocks == Init /\ [][NextSharedLocks]_vars

\* Batch: expenses of two months, one of which gets locked, are approved in
\* bulk while a save of the expense or of the user may fail
Batch ==
  [owners |-> {"u1"}, kinds |-> {FoodKind, TripKind}, months |-> {1, MaxMonth},
   actors |-> {"super1"}, options |-> {1, 3}, variances |-> {Nil},
   patches |-> {}, endDists |-> {},
   faults |-> {NoFault, [pt |-> "userSave", at |-> 1],
               [pt |-> "expenseSave", at |-> MaxExpenses]},
   lockUsers |-> {"u1"}, lockMonths |-> {MaxMonth},
   cap |-> MaxJourneys, gps |-> {FALSE}, keys |-> {FALSE}, retries |-> {},
   lists |-> IdLists, logs |-> {"bulkApproveExpenses"}]

NextBatch ==
  \/ CreateExpense(Batch)
  \/ BulkApproveExpenses(Batch)
  \/ CreateLock(Batch)

SpecBatch == Init /\ [][NextBatch]_vars

\* Concurrent: approvals, single and in bulk, of the expenses of one employee
\* run at the same time, interleaving at their awaits
Concurrent ==
  [owners |-> {"u1"}, kinds |-> {FoodKind, LinkedKind}, months |-> {1},
   actors |-> {"admin1"}, options |-> {1}, variances |-> {Nil},
   patches |-> {}, endDists |-> {}, faults |-> {NoFault},
   lockUsers |-> {}, lockMonths |-> {},
   cap |-> MaxJourneys, gps |-> {FALSE}, keys |-> {FALSE}, retries |-> {},
   lists |-> IdLists, logs |-> {}]

NextConcurrent ==
  \/ CreateExpense(Concurrent)
  \/ StartJourney(Concurrent)
  \/ ApproveFind(Concurrent)
  \/ BulkFind(Concurrent)
  \/ SaveExpense
  \/ FindJourney
  \/ SaveJourney
  \/ FindUser
  \/ SaveUser

SpecConcurrent == Init /\ [][NextConcurrent]_vars

\* Variance: expenses of two employees, journey-type ones with a small and with
\* a large variance among them, are approved in bulk with and without
\* maxVariance by the admin of one employee and by a superadmin
Variance ==
  [owners |-> {"u1", "u2"}, kinds |-> {FoodKind, TripKind, SteadyKind},
   months |-> {1}, actors |-> {"admin1", "super1"}, options |-> {1},
   variances |-> {Nil, VarianceThreshold}, patches |-> {}, endDists |-> {},
   faults |-> {NoFault}, lockUsers |-> {}, lockMonths |-> {},
   cap |-> MaxJourneys, gps |-> {FALSE}, keys |-> {FALSE}, retries |-> {},
   lists |-> IdLists, logs |-> {"bulkApproveExpenses"}]

NextVariance ==
  \/ CreateExpense(Variance)
  \/ BulkApproveExpenses(Variance)

SpecVariance == Init /\ [][NextVariance]_vars

\* Parity: expenses of every kind, some linked to a journey (by createExpense
\* or spawned by endJourney), are approved in bulk with every option
Parity ==
  [owners |-> {"u1"}, kinds |-> {FoodKind, LinkedKind, TripKind},
   months |-> {1}, actors |-> {"admin1"}, options |-> {2, 3},
   variances |-> {Nil}, patches |-> {}, endDists |-> {3},
   faults |-> {NoFault}, lockUsers |-> {}, lockMonths |-> {},
   cap |-> MaxJourneys, gps |-> {FALSE}, keys |-> {FALSE}, retries |-> {},
   lists |-> IdLists, logs |-> {"bulkApproveExpenses"}]

NextParity ==
  \/ CreateExpense(Parity)
  \/ StartJourney(Parity)
  \/ EndJourney(Parity)
  \/ BulkApproveExpenses(Parity)

SpecParity == Init /\ [][NextParity]_vars

\* Totals: expenses linked to journeys, by createExpense or spawned by
\* endJourney, are approved singly and in bulk, rejected and deleted
Totals ==
  [owners |-> {"u1"}, kinds |-> {LinkedKind, TripKind},
   months |-> {1}, actors |-> {"admin1"}, options |-> {2, 3},
   variances |-> {Nil}, patches |-> {}, endDists |-> {3},
   faults |-> {NoFault}, lockUsers |-> {}, lockMonths |-> {},
   cap |-> MaxJourneys, gps |-> {FALSE}, keys |-> {FALSE}, retries |-> {},
   lists |-> IdLists, logs |-> {}]

NextTotals ==
  \/ CreateExpense(Totals)
  \/ DeleteExpense(Totals)
  \/ StartJourney(Totals)
  \/ EndJourney(Totals)
  \/ ApproveExpense(Totals)
  \/ RejectExpense(Totals)
  \/ BulkApproveExpenses(Totals)

SpecTotals == Init /\ [][NextTotals]_vars

\* Journeys: two employees start, end and cancel journeys and log out, while
\* a save of a journey may fail
Journeys ==
  [owners |-> {"u1", "u2"}, kinds |-> {}, months |-> {1}, actors |-> {},
   options |-> {}, variances |-> {}, patches |-> {}, endDists |-> {Nil},
   faults |-> {NoFault, [pt |-> "journeySave", at |-> NoId]},
   lockUsers |-> {}, lockMonths |-> {},
   cap |-> MaxTrips, gps |-> BOOLEAN, keys |-> {FALSE}, retries |-> {},
   lists |-> {}, logs |-> {"startJourney"}]

NextJourneys ==
  \/ StartJourney(Journeys)
  \/ EndJourney(Journeys)
  \/ CancelJourney(Journeys)
  \/ Logout(Journeys)

SpecJourneys == Init /\ [][NextJourneys]_vars

\* journeys ended with and without an API key, with every fault endJourney
\* can meet, next to expenses submitted for the same journeys
Trips ==
  [owners |-> {"u1"}, kinds |-> {LinkedKind}, months |-> {1}, actors |-> {},
   options |-> {}, variances |-> {}, patches |-> {}, endDists |-> {Nil, 3},
   faults |-> {[pt |-> "journeySave", at |-> NoId],
               [pt |-> "rateLookup", at |-> NoId],
               [pt |-> "expenseSave", at |-> NoId],
               [pt |-> "linkSave", at |-> NoId],
               [pt |-> "auditLog", at |-> NoId]},
   lockUsers |-> {}, lockMonths |-> {},
   cap |-> MaxTrips, gps |-> BOOLEAN, keys |-> BOOLEAN, retries |-> {},
   lists |-> {}, logs |-> {"endJourney"}]

NextTrips ==
  \/ StartJourney(Trips)
  \/ CreateExpense(Trips)
  \/ EndJourney(Trips)
  \/ RemoteAnswer

SpecTrips == Init /\ [][NextTrips]_vars

\* journeys ended with an API key configured or not, by requests that succeed
\* or fail after the journey was saved, their lookups settling at any time
Background ==
  [owners |-> {"u1"}, kinds |-> {}, months |-> {1}, actors |-> {},
   options |-> {}, variances |-> {}, patches |-> {}, endDists |-> {Nil, 3},
   faults |-> {[pt |-> "rateLookup", at |-> NoId]},
   lockUsers |-> {}, lockMonths |-> {},
   cap |-> MaxTrips, gps |-> BOOLEAN, keys |-> BOOLEAN, retries |-> {},
   lists |-> {}, logs |-> {"endJourney"}]

NextBackground ==
  \/ StartJourney(Background)
  \/ EndJourney(Background)
  \/ RemoteAnswer

SpecBackground == Init /\ [][NextBackground]_vars

\* expenses of every category created, edited, spawned by endJourney and
\* processed, next to later expenses submitted for the same journey
Linked ==
  [owners |-> {"u1"}, kinds |-> {FoodKind, LinkedKind, TripKind}, months |-> {1},
   actors |-> {"u1", "admin1"}, options |-> {1}, variances |-> {},
   patches |-> {[NoPatch EXCEPT !.type = "food"], [NoPatch EXCEPT !.amount = 3]},
   endDists |-> {Nil}, faults |-> {NoFault}, lockUsers |-> {}, lockMonths |-> {},
   cap |-> MaxJourneys, gps |-> {FALSE}, keys |-> {FALSE}, retries |-> {},
   lists |-> {}, logs |-> {"createExpense", "updateExpense"}]

NextLinked ==
  \/ StartJourney(Linked)
  \/ EndJourney(Linked)
  \/ CreateExpense(Linked)
  \/ UpdateExpense(Linked)
  \/ ApproveExpense(Linked)
  \/ RejectExpense(Linked)

SpecLinked == Init /\ [][NextLinked]_vars

\* expenses approved beyond the balance of their owner, before and after an
\* advance
Overdraft ==
  [owners |-> {"u1"}, kinds |-> {FoodKind, TripKind}, months |-> {1},
   actors |-> {"admin1"}, options |-> {1, 2}, variances |-> {},
   patches |-> {}, endDists |-> {}, faults |-> {NoFault},
   lockUsers |-> {}, lockMonths |-> {},
   cap |-> MaxJourneys, gps |-> {FALSE}, keys |-> {FALSE}, retries |-> {},
   lists |-> {}, logs |-> {"approveExpense", "addAdvance"}]

NextOverdraft ==
  \/ CreateExpense(Overdraft)
  \/ ApproveExpense(Overdraft)
  \/ AddAdvance(Overdraft)

SpecOverdraft == Init /\ [][NextOverdraft]_vars

\* percentages and stored journey expenses at and next to the band limits
Bands ==
  [owners |-> {"u1"}, kinds |-> BandKinds \cup {FoodKind}, months |-> {1},
   actors |-> {}, options |-> {}, variances |-> {}, patches |-> {},
   endDists |-> {}, faults |-> {NoFault}, lockUsers |-> {}, lockMonths |-> {},
   cap |-> MaxJourneys, gps |-> {FALSE}, keys |-> {FALSE}, retries |-> {},
   lists |-> {}, logs |-> {"getVarianceCategory", "varianceCategory"}]

NextBands ==
  \/ CreateExpense(Bands)
  \/ GetVarianceCategory(Bands)
  \/ ReadVarianceCategory(Bands)

SpecBands == Init /\ [][NextBands]_vars

\* approvals and rejections of the same expenses run at the same time
Racing ==
  [owners |-> {"u1"}, kinds |-> {FoodKind}, months |-> {1},
   actors |-> {"admin1"}, options |-> {1}, variances |-> {},
   patches |-> {}, endDists |-> {}, faults |-> {NoFault},
   lockUsers |-> {}, lockMonths |-> {},
   cap |-> MaxJourneys, gps |-> {FALSE}, keys |-> {FALSE}, retries |-> {},
   lists |-> {}, logs |-> {}]

NextRacing ==
  \/ CreateExpense(Racing)
  \/ ApproveFind(Racing)
  \/ RejectFind(Racing)
  \/ SaveExpense
  \/ SaveRejected
  \/ FindUser
  \/ SaveUser

SpecRacing == Init /\ [][NextRacing]_vars

\* startJourney requests of two employees interleaved at their awaits, with
\* journeys cancelled in between
Starters ==
  [owners |-> Employees, kinds |-> {}, months |-> {1},
   actors |-> {}, options |-> {}, variances |-> {},
   patches |-> {}, endDists |-> {},
   faults |-> {[pt |-> "journeySave", at |-> NoId]},
   lockUsers |-> {}, lockMonths |-> {},
   cap |-> MaxTrips, gps |-> BOOLEAN, keys |-> {FALSE}, retries |-> {},
   lists |-> {}, logs |-> {}]

NextStarters ==
  \/ StartFind(Starters)
  \/ FindName
  \/ InsertJourney(Starters)
  \/ CancelJourney(Starters)

SpecStarters == Init /\ [][NextStarters]_vars

\* bulk approvals of general and journey-linked expenses in which the user
\* of an item is gone or a save of the journey or of the user fails
Partial ==
  [owners |-> {"u1"}, kinds |-> {FoodKind, LinkedKind}, months |-> {1},
   actors |-> {"super1"}, options |-> {1}, variances |-> {Nil},
   patches |-> {}, endDists |-> {},
   faults |-> {NoFault, [pt |-> "userMissing", at |-> 1],
               [pt |-> "userSave", at |-> 1],
               [pt |-> "journeySave", at |-> MaxExpenses],
               [pt |-> "expenseSave", at |-> MaxExpenses]},
   lockUsers |-> {}, lockMonths |-> {},
   cap |-> MaxJourneys, gps |-> {FALSE}, keys |-> {FALSE}, retries |-> {},
   lists |-> IdLists, logs |-> {"bulkApproveExpenses"}]

NextPartial ==
  \/ StartJourney(Partial)
  \/ CreateExpense(Partial)
  \/ BulkApproveExpenses(Partial)

SpecPartial == Init /\ [][NextPartial]_vars

\* settings updated and journeys ended while the audit collection may refuse
\* a write
Audited ==
  [owners |-> {"u1"}, kinds |-> {}, months |-> {1}, actors |-> {"admin1", "super1"},
   options |-> {}, variances |-> {}, patches |-> {}, endDists |-> {Nil, 3},
   faults |-> {[pt |-> "auditLog", at |-> NoId]},
   lockUsers |-> {}, lockMonths |-> {},
   cap |-> MaxTrips, gps |-> BOOLEAN, keys |-> {FALSE}, retries |-> {},
   lists |-> {}, logs |-> {"endJourney", "updateSetting"}]

NextAudited ==
  \/ StartJourney(Audited)
  \/ EndJourney(Audited)
  \/ UpdateSetting(Audited)

SpecAudited == Init /\ [][NextAudited]_vars

\* calculateDistance called with every option
Distance ==
  [owners |-> {}, kinds |-> {}, months |-> {1}, actors |-> {},
   options |-> {}, variances |-> {}, patches |-> {}, endDists |-> {},
   faults |-> {}, lockUsers |-> {}, lockMonths |-> {},
   cap |-> MaxJourneys, gps |-> {FALSE}, keys |-> BOOLEAN,
   retries |-> 0..MaxRetries, lists |-> {}, logs |-> {}]

NextDistance ==
  \/ CalculateDistance(Distance)
  \/ RemoteAnswer

\* every remote request ends (timeout: 10000) and every backoff sleep ends
SpecDistance == Init /\ [][NextDistance]_vars /\ WF_vars(RemoteAnswer)

\* ------------------------------------------------------------------- claims
\* C1: after any sequence of addAdvance, approveExpense, bulkApproveExpenses
\* and rejectExpense requests run one at a time, the stored advanceBalance of
\* every employee equals the sum of the employee's completed, non-deleted
\* advances minus the sum of approvedAmount over the employee's approved
\* expenses: calculateBalance and the final running balance of the
\* getAdvanceHistory replay both equal the stored scalar.
BalanceReconciles ==
  \A u \in Employees :
    /\ calculateBalance(u) = advanceBalance[u]
    /\ finalRunningBalance(u) = advanceBalance[u]

\* an employee with an advance and with expenses approved both singly and in
\* bulk, whose balance went below zero
BalanceReconcilesWitness ==
  \E u \in Employees :
    /\ completedAdvances(u) # <<>>
    /\ \E i, k \in ExpenseIds :
         /\ expenses[i].userId = u /\ expenses[k].userId = u
         /\ expenses[i].status = "approved" /\ expenses[i].bulkApproved
         /\ expenses[k].status = "approved" /\ ~expenses[k].bulkApproved
    /\ advanceBalance[u] < 0

\* C3: under one-at-a-time createExpense, updateExpense, deleteExpense,
\* approveExpense, rejectExpense and bulkApproveExpenses requests, the status
\* of an expense changes only from pending to approved or from pending to
\* rejected; an approved or rejected expense never changes status again.
StatusOnlyLeavesPending ==
  [][\A id \in ExpenseIds :
       expenses'[id].status # expenses[id].status
         => /\ expenses[id].status = "pending"
            /\ expenses'[id].status \in {"approved", "rejected"}]_vars

\* a reject request against an approved expense was refused while another
\* expense is rejected
StatusOnlyLeavesPendingWitness ==
  /\ req.op = "rejectExpense"
  /\ res.kind = "alreadyProcessed"
  /\ Stored(req.id)
  /\ expenses[req.id].status = "approved"
  /\ \E k \in ExpenseIds : expenses[k].status = "rejected"

\* C4: approveExpense (by a caller allowed to process the expense) on an
\* expense that is already approved or rejected answers already-processed and
\* leaves the expense, the owner's advanceBalance and the linked journey's
\* additionalExpensesTotal as they were: no second debit.
SecondApproveRefused ==
  [][(/\ req'.op = "approveExpense"
      /\ Stored(req'.id)
      /\ expenses[req'.id].status \in {"approved", "rejected"}
      /\ \/ RoleOf(req'.actor) = "superadmin"
         \/ /\ RoleOf(req'.actor) = "admin"
            /\ AssignedTo(expenses[req'.id].userId) = req'.actor)
       => /\ res'.kind = "alreadyProcessed"
          /\ expenses'[req'.id] = expenses[req'.id]
          /\ advanceBalance' = advanceBalance
          /\ journeys' = journeys]_vars

\* a second approve of an approved, journey-linked expense was refused and
\* the balance shows exactly one debit
SecondApproveRefusedWitness ==
  /\ req.op = "approveExpense"
  /\ res.kind = "alreadyProcessed"
  /\ Stored(req.id)
  /\ expenses[req.id].status = "approved"
  /\ expenses[req.id].journeyId # NoId
  /\ \A k \in ExpenseIds \ {req.id} : expenses[k].status # "approved"
  /\ advanceBalance[expenses[req.id].userId] = 0 - expenses[req.id].approvedAmount
  /\ journeys[expenses[req.id].journeyId].additionalExpensesTotal
       = expenses[req.id].approvedAmount

\* amount + d * rate to two decimals, d being the distance option o names
\* and a missing rate counting as the default
AmountPlusDistanceCost(e, o, adminDistance) ==
  LET d == IF o = 1 THEN NumOr0(e.systemDistance)
           ELSE IF o = 2 THEN NumOr0(e.manualDistance)
           ELSE NumOr0(adminDistance)
      r == IF e.distanceRate = Nil \/ e.distanceRate = 0
           THEN DefaultRate ELSE e.distanceRate
  IN (2 * (e.amount * DistScale + d * r) + DistScale) \div (2 * DistScale)

OwnMonthLocked(u, m) == monthLocks[u][m] = "locked"

\* the caller may approve or reject expense id
MayProcess(actor, id) ==
  \/ RoleOf(actor) = "superadmin"
  \/ RoleOf(actor) = "admin" /\ AssignedTo(expenses[id].userId) = actor

\* C6: when the month of an expense's date is locked, approveExpense and
\* rejectExpense on it answer period-locked for admins and superadmins alike
\* and a bulkApproveExpenses item for it ends in failed; the expense stays as
\* it was and no balance or journey total changes.
LockedMonthBlocksProcessing ==
  [][/\ (/\ req'.op \in {"approveExpense", "rejectExpense"}
         /\ Stored(req'.id)
         /\ expenses[req'.id].status = "pending"
         /\ MayProcess(req'.actor, req'.id)
         /\ OwnMonthLocked(expenses[req'.id].userId, expenses[req'.id].date))
        => /\ res'.kind = "periodLocked"
           /\ expenses' = expenses
           /\ advanceBalance' = advanceBalance
           /\ journeys' = journeys
     /\ (req'.op = "bulkApproveExpenses" /\ res'.kind = "ok")
        => \A id \in ExpenseIds :
             (/\ id \in Range(req'.ids)
              /\ Stored(id)
              /\ expenses[id].status = "pending"
              /\ MayProcess(req'.actor, id)
              /\ OwnMonthLocked(expenses[id].userId, expenses[id].date))
               => /\ \E k \in 1..Len(res'.failed) : res'.failed[k].expenseId = id
                  /\ expenses'[id] = expenses[id]]_vars

\* C7: while a month is locked no request creates an expense dated in it,
\* changes or deletes an expense dated in it, or moves an expense's date into
\* it: createExpense (its add-to-existing path included), updateExpense,
\* deleteExpense and endJourney leave every expense of a locked month as it
\* was and put no expense into a locked month.
LockedMonthIsFrozen ==
  [][monthLocks' = monthLocks
       => \A id \in 1..Len(expenses') :
            /\ (/\ id \in ExpenseIds
                /\ expenses[id].exists
                /\ OwnMonthLocked(expenses[id].userId, expenses[id].date))
                 => expenses'[id] = expenses[id]
            /\ (/\ expenses'[id].exists
                /\ OwnMonthLocked(expenses'[id].userId, expenses'[id].date))
                 => id \in ExpenseIds /\ expenses'[id] = expenses[id]]_vars

\* C8: locks are per employee: createExpense, approveExpense and
\* rejectExpense are blocked exactly when the MonthLock record of the
\* expense's owner for the month of the expense's date is locked; the record
\* of another employee never blocks and the owner's locked record always does.
LockIsPerEmployee ==
  [][/\ req'.op = "createExpense"
         => (res'.kind = "periodLocked"
               <=> OwnMonthLocked(req'.actor, req'.date))
     /\ (/\ req'.op \in {"approveExpense", "rejectExpense"}
         /\ Stored(req'.id)
         /\ expenses[req'.id].status = "pending"
         /\ MayProcess(req'.actor, req'.id))
        => (res'.kind = "periodLocked"
              <=> OwnMonthLocked(expenses[req'.id].userId,
                                 expenses[req'.id].date))]_vars

\* the pending expenses among ids that the caller may process
Processable(ids, actor) ==
  {id \in ExpenseIds : /\ id \in Range(ids)
                       /\ expenses[id].exists
                       /\ expenses[id].status = "pending"
                       /\ MayProcess(actor, id)}

\* the expense ids a list of result entries names
IdsOf(entries) == {entries[k].expenseId : k \in 1..Len(entries)}

RECURSIVE DebitsOf(_, _)
\* the sum of approvedAmount over the approved entries of employee u
DebitsOf(approved, u) ==
  IF approved = <<>> THEN 0
  ELSE (IF Head(approved).userId = u THEN Head(approved).approvedAmount ELSE 0)
       + DebitsOf(Tail(approved), u)

\* C9: in bulkApproveExpenses (no variance filter) every pending expense the
\* caller may process ends in exactly one of approved and failed, whatever
\* failed before or after it; failed entries carry a reason and totalFailed
\* counts them; every approved item stays approved with its amount and every
\* approved item's debit is in the stored balance when the call returns.
BulkFailureIsPerItem ==
  [][(req'.op = "bulkApproveExpenses" /\ res'.kind = "ok"
      /\ req'.maxVariance = Nil)
       => /\ IdsOf(res'.approved) \cup IdsOf(res'.failed)
               = Processable(req'.ids, req'.actor)
          /\ Len(res'.approved) + Len(res'.failed)
               = Cardinality(Processable(req'.ids, req'.actor))
          /\ res'.totalFailed = Len(res'.failed)
          /\ res'.totalApproved = Len(res'.approved)
          /\ \A k \in 1..Len(res'.failed) : res'.failed[k].reason # ""
          /\ \A k \in 1..Len(res'.approved) :
               LET a == res'.approved[k]
               IN /\ expenses'[a.expenseId].status = "approved"
                  /\ expenses'[a.expenseId].approvedAmount = a.approvedAmount
          /\ \A u \in Employees :
               advanceBalance'[u]
                 = advanceBalance[u] - DebitsOf(res'.approved, u)]_vars

\* a bulk call in which an item failed and a later item was approved
BulkFailureIsPerItemWitness ==
  /\ req.op = "bulkApproveExpenses"
  /\ res.kind = "ok"
  /\ \E f \in 1..Len(res.failed), a \in 1..Len(res.approved) :
       /\ res.failed[f].expenseId < res.approved[a].expenseId
       /\ expenses[res.approved[a].expenseId].status = "approved"
       /\ expenses[res.failed[f].expenseId].status = "pending"

\* the first position of id in the array ids
FirstPos(ids, id) == CHOOSE p \in 1..Len(ids) :
                       ids[p] = id /\ \A q \in 1..(p - 1) : ids[q] # id

\* the entries name expense ids in the order `before`
ListedInOrder(entries, before(_, _)) ==
  \A p, q \in 1..Len(entries) :
    p < q => before(entries[p].expenseId, entries[q].expenseId)

RECURSIVE DebitsOfRequests(_, _)
\* the sum, over the requests rs, of the amounts they report as approved for u
DebitsOfRequests(rs, u) ==
  IF rs = <<>> THEN 0
  ELSE DebitsOf(Head(rs).approved, u) + DebitsOfRequests(Tail(rs), u)

\* C2: when concurrent approvals (approveExpense requests or bulk items) of
\* different pending expenses of one employee have all finished, the stored
\* balance is the credited advances minus every amount the requests approved:
\* no debit is lost in any interleaving.
NoDebitLost ==
  (/\ \A p \in 1..Len(procs) : procs[p].pc = "done"
   /\ \A p, q \in 1..Len(procs) :
        p # q => IdsOf(procs[p].approved) \cap IdsOf(procs[q].approved) = {})
    => \A u \in Employees :
         advanceBalance[u]
           = SumAmounts(completedAdvances(u)) - DebitsOfRequests(procs, u)

\* the variance |manual - system| / system * 100 of e is above maxVariance
\* (no variance exists when the system distance is 0)
VarianceExceeds(e, maxVariance) ==
  LET sd == NumOr0(e.systemDistance)
      md == NumOr0(e.manualDistance)
  IN /\ sd # 0
     /\ (IF md >= sd THEN md - sd ELSE sd - md) * 100 > maxVariance * sd

\* the items of a bulk call that the variance threshold excludes
ExcludedByVariance(ids, actor, maxVariance) ==
  {id \in Processable(ids, actor) :
     expenses[id].type = "journey" /\ VarianceExceeds(expenses[id], maxVariance)}

\* C11: when bulkApproveExpenses is given maxVariance, every journey-type item
\* whose variance exceeds it is not attempted (it stays pending and is in
\* neither approved nor failed), no other item is excluded, and totalFiltered
\* is exactly the number of items the variance threshold excluded.
VarianceFilterExact ==
  [][(req'.op = "bulkApproveExpenses" /\ res'.kind = "ok"
      /\ req'.maxVariance # Nil)
       => LET excluded == ExcludedByVariance(req'.ids, req'.actor,
                                             req'.maxVariance)
          IN /\ \A id \in excluded :
                  /\ expenses'[id] = expenses[id]
                  /\ id \notin IdsOf(res'.approved) \cup IdsOf(res'.failed)
             /\ \A id \in Processable(req'.ids, req'.actor) \ excluded :
                  id \in IdsOf(res'.approved) \cup IdsOf(res'.failed)
             /\ res'.totalFiltered = Cardinality(excluded)]_vars

\* approveExpense on expense id with the option of a bulk call (and, as the
\* validator demands for option 3, an adminDistance), no month being locked
SingleApprove(actor, id, option) ==
  approveExpenseOut(actor, id, option, IF option = 3 THEN AdminDistance ELSE Nil,
                    [m \in Months |-> "none"], NoFault)

RECURSIVE SingleJourneyGain(_, _, _, _)
\* what approveExpense would add to the total of journey j for the entries
SingleJourneyGain(entries, j, actor, option) ==
  IF entries = <<>> THEN 0
  ELSE LET id == Head(entries).expenseId
           one == SingleApprove(actor, id, option)
       IN (IF expenses[id].journeyId = j
           THEN one.st.journeys[j].additionalExpensesTotal
                  - journeys[j].additionalExpensesTotal
           ELSE 0)
          + SingleJourneyGain(Tail(entries), j, actor, option)

RECURSIVE SingleDebit(_, _, _, _)
\* what approveExpense would take from the balance of u for the entries
SingleDebit(entries, u, actor, option) ==
  IF entries = <<>> THEN 0
  ELSE LET id == Head(entries).expenseId
           one == SingleApprove(actor, id, option)
       IN (IF expenses[id].userId = u
           THEN advanceBalance[u] - one.st.advanceBalance[u]
           ELSE 0)
          + SingleDebit(Tail(entries), u, actor, option)

\* C12: for every item bulkApproveExpenses reports in approved, the stored
\* approvedAmount, the increase of the linked journey's
\* additionalExpensesTotal and the decrease of the owner's advanceBalance are
\* what approveExpense with the same option produces for that expense.
BulkMatchesSingle ==
  [][(req'.op = "bulkApproveExpenses" /\ res'.kind = "ok")
       => /\ \A k \in 1..Len(res'.approved) :
               LET a == res'.approved[k]
                   id == a.expenseId
                   one == SingleApprove(req'.actor, id, req'.option)
               IN /\ one.res.kind = "ok"
                  /\ expenses'[id].approvedAmount
                       = one.st.expenses[id].approvedAmount
                  /\ a.approvedAmount = one.res.approvedAmount
                  /\ a.previous - a.current
                       = one.res.previous - one.res.current
          /\ \A j \in JourneyIds :
               journeys'[j].additionalExpensesTotal
                 - journeys[j].additionalExpensesTotal
                 = SingleJourneyGain(res'.approved, j, req'.actor, req'.option)
          /\ \A u \in Employees :
               advanceBalance[u] - advanceBalance'[u]
                 = SingleDebit(res'.approved, u, req'.actor, req'.option)]_vars

\* one bulk call approved a journey-type expense a journey spawned, its
\* distance cost included, and an expense of another type
BulkMatchesSingleWitness ==
  /\ req.op = "bulkApproveExpenses"
  /\ res.kind = "ok"
  /\ Len(res.approved) = 2
  /\ \E i, k \in IdsOf(res.approved) :
       /\ expenses[i].type = "journey"
       /\ expenses[i].journeyId # NoId
       /\ expenses[i].approvedAmount > expenses[i].amount
       /\ journeys[expenses[i].journeyId].additionalExpensesTotal
            >= expenses[i].approvedAmount
       /\ expenses[k].type # "journey"

\* C13: rejectExpense on a pending expense (by a caller who may process it, in
\* a month that is not locked) sets its status to rejected and stores the
\* reason sent, which is never empty; no rejectExpense request, successful or
\* not, changes any employee's advanceBalance, any journey or any other
\* expense.
RejectTouchesOnlyTheExpense ==
  [][req'.op = "rejectExpense"
       => /\ advanceBalance' = advanceBalance
          /\ journeys' = journeys
          /\ advances' = advances
          /\ \A k \in ExpenseIds \ {req'.id} : expenses'[k] = expenses[k]
          /\ Len(expenses') = Len(expenses)
          /\ (/\ Stored(req'.id)
              /\ expenses[req'.id].status = "pending"
              /\ MayProcess(req'.actor, req'.id))
               => /\ res'.kind = "ok"
                  /\ req'.rejectionReason # NoReason
                  /\ expenses'[req'.id]
                       = [expenses[req'.id] EXCEPT
                            !.status = "rejected",
                            !.rejectionReason = req'.rejectionReason,
                            !.approvedBy = req'.actor]]_vars

\* a journey-linked expense was rejected while the journey total and the
\* balance hold the amount of another, approved expense only
RejectTouchesOnlyTheExpenseWitness ==
  /\ req.op = "rejectExpense"
  /\ res.kind = "ok"
  /\ expenses[req.id].status = "rejected"
  /\ expenses[req.id].rejectionReason \in Reasons
  /\ expenses[req.id].journeyId # NoId
  /\ \E k \in ExpenseIds :
       /\ expenses[k].status = "approved"
       /\ expenses[k].journeyId = expenses[req.id].journeyId
       /\ journeys[expenses[k].journeyId].additionalExpensesTotal
            = expenses[k].approvedAmount
       /\ advanceBalance[expenses[k].userId] = 0 - expenses[k].approvedAmount

\* the expenses a step approves
NewlyApproved ==
  {id \in ExpenseIds : /\ expenses[id].status # "approved"
                        /\ expenses'[id].status = "approved"}

RECURSIVE SumApproved(_, _)
\* the sum of approvedAmount over the expenses ids of the collection exps
SumApproved(exps, ids) ==
  IF ids = {} THEN 0
  ELSE LET id == CHOOSE x \in ids : TRUE
       IN exps[id].approvedAmount + SumApproved(exps, ids \ {id})

\* the approved expenses linked to journey j
ApprovedLinkedTo(j) ==
  {id \in ExpenseIds : /\ expenses[id].exists
                        /\ expenses[id].status = "approved"
                        /\ expenses[id].journeyId = j}

\* C14: every successful approval (single or bulk item) of an expense linked
\* to a journey adds exactly its approvedAmount to that journey's
\* additionalExpensesTotal and takes the same amount from the owner's balance;
\* so, with requests run one at a time, the additionalExpensesTotal of every
\* journey always equals the sum of approvedAmount over the approved expenses
\* linked to it.
JourneyTotalReconciles ==
  /\ [](\A j \in JourneyIds :
          journeys[j].additionalExpensesTotal
            = SumApproved(expenses, ApprovedLinkedTo(j)))
  /\ [][/\ \A j \in JourneyIds :
            journeys'[j].additionalExpensesTotal
              - journeys[j].additionalExpensesTotal
              = SumApproved(expenses', {id \in NewlyApproved :
                                         expenses[id].journeyId = j})
        /\ \A u \in Employees :
            advanceBalance[u] - advanceBalance'[u]
              = SumApproved(expenses', {id \in NewlyApproved :
                                         expenses[id].userId = u})]_vars

\* a journey with two approved linked expenses, one spawned by endJourney and
\* approved with its distance cost, whose total is the sum of both amounts
JourneyTotalReconcilesWitness ==
  \E j \in JourneyIds :
    /\ Cardinality(ApprovedLinkedTo(j)) = 2
    /\ \E i \in ApprovedLinkedTo(j) :
         /\ expenses[i].type = "journey"
         /\ expenses[i].approvedAmount > expenses[i].amount
    /\ journeys[j].additionalExpensesTotal > 0
    /\ advanceBalance[journeys[j].userId]
         = 0 - journeys[j].additionalExpensesTotal

\* the expense has a positive distanceRate stored on it
HasStoredRate(e) == e.distanceRate # Nil /\ e.distanceRate > 0

\* C15: approveExpense on a journey-type expense without a positive stored
\* distanceRate fails with a missing-rate error and changes no state; when an
\* approval succeeds, the distance cost in approvedAmount is the distance
\* times the rate stored on the expense, never a default or a setting.
MissingRateRefused ==
  [][(/\ req'.op = "approveExpense"
      /\ Stored(req'.id)
      /\ expenses[req'.id].status = "pending"
      /\ expenses[req'.id].type = "journey"
      /\ MayProcess(req'.actor, req'.id))
       => IF HasStoredRate(expenses[req'.id])
          THEN res'.kind = "ok"
                 => expenses'[req'.id].approvedAmount
                      = LET e == expenses[req'.id]
                            d == IF req'.option = 1 THEN NumOr0(e.systemDistance)
                                 ELSE IF req'.option = 2
                                   THEN NumOr0(e.manualDistance)
                                 ELSE req'.adminDistance
                        IN ToFixed2(e.amount * DistScale + d * e.distanceRate)
          ELSE /\ res'.kind = "badRequest"
               /\ expenses' = expenses
               /\ advanceBalance' = advanceBalance
               /\ journeys' = journeys]_vars

\* the journeys of employee u with status active
ActiveJourneysOf(u) ==
  {j \in JourneyIds : journeys[j].userId = u /\ journeys[j].status = "active"}

\* C16: with startJourney, endJourney, cancelJourney and logout requests run
\* one at a time, every employee has at most one active journey at any time,
\* and startJourney by an employee who has an active journey is refused and
\* creates nothing.
OneActiveJourney ==
  /\ [](\A u \in Employees : Cardinality(ActiveJourneysOf(u)) <= 1)
  /\ [][(req'.op = "startJourney" /\ ActiveJourneysOf(req'.actor) # {})
         => /\ res'.kind = "badRequest"
            /\ journeys' = journeys
            /\ expenses' = expenses]_vars

\* an employee whose earlier journey is over has a new active journey, and a
\* further startJourney of that employee was just refused
OneActiveJourneyWitness ==
  /\ req.op = "startJourney"
  /\ res.kind = "badRequest"
  /\ Cardinality(ActiveJourneysOf(req.actor)) = 1
  /\ \E j \in JourneyIds :
       /\ journeys[j].userId = req.actor
       /\ journeys[j].status \in {"completed", "cancelled"}

\* the expenses linked to journey j
LinkedTo(j) == {i \in ExpenseIds : expenses[i].exists /\ expenses[i].journeyId = j}

\* a step in which endJourney completed a journey and answered with success
EndJourneySucceeds ==
  /\ req'.op = "endJourney"
  /\ res'.kind = "ok"
  /\ req'.id \in JourneyIds
  /\ journeys[req'.id].status = "active"
  /\ journeys'[req'.id].status = "completed"

\* C17: every journey has at most one expense linked to it after any sequence
\* of createExpense and endJourney requests, and a successful endJourney
\* creates exactly one expense linked to its journey, pending, and records
\* it in the journey's expenseId.
OneExpensePerJourney ==
  /\ [](\A j \in JourneyIds : Cardinality(LinkedTo(j)) <= 1)
  /\ [][EndJourneySucceeds =>
          /\ Len(expenses') = Len(expenses) + 1
          /\ expenses'[Len(expenses')].journeyId = req'.id
          /\ expenses'[Len(expenses')].status = "pending"
          /\ journeys'[req'.id].expenseId = Len(expenses')]_vars


\* journey j is completed and the expense endJourney created for it is stored,
\* linked to it and named by its expenseId
HasSpawnedExpense(j) ==
  /\ journeys[j].expenseId \in ExpenseIds
  /\ expenses[journeys[j].expenseId].exists
  /\ expenses[journeys[j].expenseId].journeyId = j

\* C18: endJourney is all-or-nothing: a request that fails at any step leaves
\* the journey as it was (active, no end data) and creates no expense, and no
\* journey is ever completed without its spawned, linked expense.
EndJourneyAllOrNothing ==
  /\ [][req'.op = "endJourney" /\ res'.kind \notin {"ok", "none"}
          => journeys' = journeys /\ expenses' = expenses]_vars
  /\ [](\A j \in JourneyIds :
          journeys[j].status = "completed" => HasSpawnedExpense(j))


\* what holds of one calculateDistance call c with valid coordinates
BoundedAttempts(c) ==
  /\ c.pc # "raised"
  /\ Len(c.outcomes) <= c.retries + 1
  /\ \A k \in 1..(Len(c.outcomes) - 1) : c.outcomes[k] = "overQueryLimit"
  /\ (~c.apiKey \/ c.forceHaversine) =>
        /\ c.outcomes = <<>>
        /\ c.pc = "returned"
        /\ c.result = calculateDistanceWithHaversine
  /\ (c.pc = "returned" /\ c.outcomes # <<>>) =>
        IF c.outcomes[Len(c.outcomes)] = "ok"
        THEN c.result.source = "google"
        ELSE /\ c.result.source = "haversine"
             /\ c.result.distance = Haversine
             /\ c.result.error = c.outcomes[Len(c.outcomes)]
             /\ \/ c.outcomes[Len(c.outcomes)] = "failed"
                \/ Len(c.outcomes) = c.retries + 1
  /\ (c.pc = "attempt") => Len(c.outcomes) = c.attempt /\ c.attempt <= c.retries

\* C19: calculateDistance with valid coordinates never raises and always
\* returns: at most retries + 1 remote attempts, a further attempt only after
\* an OVER_QUERY_LIMIT failure, the Haversine result carrying the failure
\* reason after any other failure or once the attempts are used up, and no
\* attempt at all without an API key.
DistanceAlwaysReturned ==
  /\ [](\A p \in 1..Len(lookups) : lookups[p].valid => BoundedAttempts(lookups[p]))
  /\ \A p \in 1..MaxCalls :
        (p <= Len(lookups) /\ lookups[p].valid)
          ~> (p <= Len(lookups) /\ lookups[p].pc = "returned")

\* a call that was rate-limited on every one of its retries + 1 attempts and
\* returned the Haversine result with that reason
DistanceAlwaysReturnedWitness ==
  \E p \in 1..Len(lookups) :
    /\ lookups[p].valid /\ lookups[p].apiKey
    /\ lookups[p].retries = 1
    /\ lookups[p].outcomes = <<"overQueryLimit", "overQueryLimit">>
    /\ lookups[p].pc = "returned"
    /\ lookups[p].result.source = "haversine"
    /\ lookups[p].result.error = "overQueryLimit"


\* the system distance endJourney computes for journey j before it responds
SystemDistanceOf(j) == IF journeys[j].gpsOffline THEN 0 ELSE Haversine

\* a step in which a lookup that endJourney started settles
LookupSettles ==
  \E p \in 1..Len(lookups) :
    /\ lookups[p].caller = "endJourney"
    /\ lookups[p].pc = "attempt"
    /\ lookups'[p].pc # "attempt"

AuditFailureIsHarmless ==
  [][/\ req'.op = "updateSetting" =>
          LET out == updateSettingOut(req'.actor, req'.value, NoFault)
          IN ratePerKm' = out.rate /\ res' = out.res
     /\ req'.op = "endJourney" =>
          LET out == endJourneyOut(req'.actor, req'.id, Haversine,
                                   req'.manualDistance, NoFault)
          IN /\ expenses' = out.st.expenses
             /\ journeys' = out.st.journeys
             /\ res' = out.res]_vars


\* C22: every stored expense has a journeyId if and only if its
\* expenseCategory is journey, after any sequence of createExpense,
\* updateExpense and endJourney requests.
JourneyIdIffCategory ==
  \A i \in ExpenseIds :
    expenses[i].exists =>
      (expenses[i].journeyId # NoId <=> expenses[i].expenseCategory = "journey")


\* the amount approveExpense approves for the stored expense id
AmountToApprove(id, option, adminDistance) ==
  IF expenses[id].type = "journey"
  THEN calculateApprovedAmount(expenses[id], option, adminDistance).value
  ELSE expenses[id].amount

\* C23: approving a pending expense succeeds whatever the balance of its
\* owner and stores exactly previousBalance - approvedAmount, also when that
\* is below zero: no refusal for insufficient balance, no clamping at zero,
\* and later approvals and advances start from the negative value.
NegativeBalanceAllowed ==
  [][/\ (/\ req'.op = "approveExpense"
          /\ Stored(req'.id)
          /\ expenses[req'.id].status = "pending")
        => /\ res'.kind = "ok"
           /\ res'.previous = advanceBalance[expenses[req'.id].userId]
           /\ advanceBalance' =
                 [advanceBalance EXCEPT ![expenses[req'.id].userId] =
                    @ - AmountToApprove(req'.id, req'.option, req'.adminDistance)]
     /\ (req'.op = "addAdvance" /\ res'.kind = "created")
        => advanceBalance' =
             [advanceBalance EXCEPT ![req'.userId] = @ + req'.amount]]_vars

\* an approval that started from a balance below zero and went further down
NegativeBalanceAllowedWitness ==
  /\ req.op = "approveExpense"
  /\ res.kind = "ok"
  /\ res.previous < 0
  /\ res.approvedAmount > 0
  /\ advanceBalance[expenses[req.id].userId] = res.previous - res.approvedAmount


\* C24: addAdvance of amount a to an employee with balance b stores b + a and
\* nothing else, whatever the sign of b; with b < 0 the returned note says
\* that the negative balance was cleared with surplus b + a when b + a >= 0
\* and that the balance is still negative at b + a otherwise.
AdvanceIsPlainAddition ==
  [][(req'.op = "addAdvance" /\ res'.kind = "created") =>
       LET b == advanceBalance[req'.userId]
           a == req'.amount
       IN /\ advanceBalance' = [advanceBalance EXCEPT ![req'.userId] = b + a]
          /\ res'.previousBalance = b
          /\ res'.newBalance = b + a
          /\ Len(advances') = Len(advances) + 1
          /\ advances'[Len(advances')].amount = a
          /\ UNCHANGED <<expenses, journeys>>
          /\ b < 0 =>
               res'.reconciliationNote =
                 [kind |-> IF b + a >= 0 THEN "cleared" ELSE "stillNegative",
                  value |-> b + a]]_vars

\* an advance that brought a negative balance to exactly zero
AdvanceIsPlainAdditionWitness ==
  /\ req.op = "addAdvance"
  /\ res.kind = "created"
  /\ res.previousBalance < 0
  /\ res.newBalance = 0
  /\ advanceBalance[req.userId] = 0
  /\ res.reconciliationNote.kind = "cleared"


\* the distance option o selects on expense e, in 1/DistScale km
SelectedDistance(e, o, adminDistance) ==
  IF o = 1 THEN e.systemDistance
  ELSE IF o = 2 THEN e.manualDistance
  ELSE adminDistance

\* C25: for a journey expense calculateApprovedAmount(expense, option,
\* adminDistance) returns the selected distance (systemDistance for option 1,
\* manualDistance for option 2, the given adminDistance for option 3)
\* multiplied by the distanceRate of the expense.
ApprovedAmountIsDistanceCost ==
  [][(/\ req'.op = "approveExpense"
      /\ res'.kind = "ok"
      /\ expenses[req'.id].type = "journey"
      /\ expenses[req'.id].distanceRate # Nil)
       => res'.approvedAmount =
            ToFixed2(SelectedDistance(expenses[req'.id], req'.option,
                                      req'.adminDistance)
                     * expenses[req'.id].distanceRate)]_vars


\* the band of the fraction num / den percent
BandOf(num, den) ==
  IF num <= 10 * den THEN "low"
  ELSE IF num <= 20 * den THEN "medium"
  ELSE "high"

\* C26: getVarianceCategory maps a percentage p to low when p <= 10, to
\* medium when 10 < p <= 20 and to high when p > 20, so that 10 is low, 10.01
\* medium, 20 medium and 20.01 high, and the varianceCategory virtual of the
\* Expense model uses the same bands.
VarianceBands ==
  /\ (req.op = "getVarianceCategory" /\ req.p >= 0) =>
        /\ res.kind = "ok"
        /\ res.category = BandOf(req.p, PctScale)
        /\ req.p = 10 * PctScale => res.category = "low"
        /\ req.p = 10 * PctScale + 1 => res.category = "medium"
        /\ req.p = 20 * PctScale => res.category = "medium"
        /\ req.p = 20 * PctScale + 1 => res.category = "high"
  /\ req.op = "varianceCategory" =>
        LET e == expenses[req.id]
            diff == IF e.manualDistance >= e.systemDistance
                    THEN e.manualDistance - e.systemDistance
                    ELSE e.systemDistance - e.manualDistance
        IN res.category =
             IF e.type = "journey" /\ e.systemDistance > 0
             THEN BandOf(100 * diff, e.systemDistance)
             ELSE "low"

\* the virtual of a stored journey expense whose variance is exactly 20 % was
\* read as medium
VarianceBandsWitness ==
  /\ req.op = "varianceCategory"
  /\ expenses[req.id].type = "journey"
  /\ expenses[req.id].manualDistance - expenses[req.id].systemDistance
       = 20 * PctScale
  /\ expenses[req.id].systemDistance = 100 * PctScale
  /\ res.category = "medium"


\* the approveExpense and rejectExpense requests that answered with success
\* for expense id
WinnersOf(id) ==
  {p \in 1..Len(procs) :
     /\ procs[p].op \in {"approveExpense", "rejectExpense"}
     /\ procs[p].ids = <<id>>
     /\ procs[p].kind = "ok"}

\* the requests that debited the owner's balance for expense id
DebitorsOf(id) ==
  {p \in 1..Len(procs) : id \in IdsOf(procs[p].approved)}

\* C27: when two approveExpense requests, or an approveExpense and a
\* rejectExpense request, for the same pending expense run concurrently, at
\* most one of them succeeds and the owner's balance is debited at most once
\* for that expense.
OneRequestWins ==
  \A id \in ExpenseIds :
    /\ \A p, q \in WinnersOf(id) :
         procs[p].op = "approveExpense" => p = q
    /\ Cardinality(DebitorsOf(id)) <= 1


\* C28: every expense that bulkApproveExpenses reports in failed is left as
\* it was before the call: still pending with no approvedAmount and no
\* approver, its journey's additionalExpensesTotal and its owner's balance
\* changed by nothing but the items reported as approved, also when the
\* reason is 'User not found'.
FailedItemsUntouched ==
  [][(req'.op = "bulkApproveExpenses" /\ res'.kind = "ok") =>
       \A k \in 1..Len(res'.failed) :
         LET id == res'.failed[k].expenseId
             e == expenses[id]
         IN Stored(id) =>
            /\ expenses'[id] = e
            /\ expenses'[id].status = "pending"
            /\ expenses'[id].approvedAmount = Nil
            /\ advanceBalance'[e.userId] =
                  advanceBalance[e.userId] - DebitsOf(res'.approved, e.userId)
            /\ (/\ e.journeyId # NoId
                /\ \A a \in 1..Len(res'.approved) :
                     expenses[res'.approved[a].expenseId].journeyId # e.journeyId)
                 => journeys'[e.journeyId] = journeys[e.journeyId]]_vars


\* C29: once an expense is approved or rejected, no later createExpense or
\* updateExpense request changes its amount, distances, date or type, a
\* createExpense for a journey whose linked expense already exists included.
ProcessedExpenseFrozen ==
  [][req'.op \in {"createExpense", "updateExpense"} =>
       \A id \in ExpenseIds :
         (Stored(id) /\ expenses[id].status \in {"approved", "rejected"}) =>
           /\ expenses'[id].amount = expenses[id].amount
           /\ expenses'[id].systemDistance = expenses[id].systemDistance
           /\ expenses'[id].manualDistance = expenses[id].manualDistance
           /\ expenses'[id].date = expenses[id].date
           /\ expenses'[id].type = expenses[id].type]_vars


\* C30: two startJourney requests of one employee that run concurrently never
\* both succeed: however their checks for an active journey and their inserts
\* interleave, the employee has at most one journey with status active.
AtMostOneActiveJourney ==
  \A u \in Employees : Cardinality(findActiveJourney(u)) <= 1

====
